---- MODULE Spec2Model ----
(***************************************************************************)
(* Model of the emojiVerdict server route (POST /api/verdict): the         *)
(* per-identifier fixed-window rate limiter and the streamed verdict       *)
(* pipeline (moderation, language handling, generation, validation,        *)
(* share link, NDJSON events).                                             *)
(***************************************************************************)
EXTENDS Integers, Sequences, FiniteSets, TLC

\* ------------------------------------------------------------------------
\* Program constants
\* ------------------------------------------------------------------------
RATE_LIMIT_MAX_REQUESTS == 30

RATE_LIMIT_WINDOW_MS == 24 * 60 * 60 * 1000

\* ------------------------------------------------------------------------
\* Bounds of the model
\* ------------------------------------------------------------------------
\* Date.now() is observed up to MaxWindows window lengths after start.
MaxWindows == 2

\* Calls per identifier and window that the bookkeeping follows.
MaxCallsPerWindow == 32

\* Requests that can be in flight at the same time.
MaxInFlight == 2

Identifiers == {"X", "Y"}

\* The identifier whose requests are followed while they overlap.
ConcurrentIdentifiers == {"X"}

\* Values of Date.now(): the window boundaries and the instant before each.
TimePoints ==
  {k * RATE_LIMIT_WINDOW_MS : k \in 0..MaxWindows}
    \cup {k * RATE_LIMIT_WINDOW_MS - 1 : k \in 1..MaxWindows}

Slots == 1..MaxInFlight

\* ------------------------------------------------------------------------
\* Rate limiter (pure part)
\* ------------------------------------------------------------------------
Max(a, b) == IF a >= b THEN a ELSE b

Min(a, b) == IF a <= b THEN a ELSE b

clampToRange(value, lo, hi) == Min(Max(value, lo), hi)

\* Math.ceil(a / b) for a >= 0, b > 0
CeilDiv(a, b) == (a + b - 1) \div b

\* rateLimitStore.get(identifier) === undefined
NoEntry == [present |-> FALSE, count |-> 0, resetAt |-> 0]

RateLimitEntry(c, r) == [present |-> TRUE, count |-> c, resetAt |-> r]

\* !entry || entry.resetAt <= now
WindowExpiredStrict(entry, t) == ~entry.present \/ entry.resetAt < t
WindowExpired(entry, t) == ~entry.present \/ entry.resetAt <= t

\* entry.count >= RATE_LIMIT_MAX_REQUESTS
LimitReachedOffByOne(entry) == entry.count > RATE_LIMIT_MAX_REQUESTS
LimitReached(entry) == entry.count >= RATE_LIMIT_MAX_REQUESTS

\* const resetAt = now + RATE_LIMIT_WINDOW_MS
NewResetAt(t) == t + RATE_LIMIT_WINDOW_MS

\* entry.count += 1
IncrementedCountStuck(entry) == entry.count
IncrementedCountTwice(entry) == entry.count + 2
IncrementedCount(entry) == entry.count + 1

\* rateLimitStore.set(identifier, value)
StoreSetAll(store, identifier, value) == [i \in DOMAIN store |-> value]
StoreSet(store, identifier, value) == [store EXCEPT ![identifier] = value]

\* applyRateLimit(identifier) run at Date.now() = t on the given store:
\* the store it leaves and the object it returns.
applyRateLimit(store, identifier, t) ==
  LET entry == store[identifier] IN
  IF WindowExpired(entry, t)
    THEN LET resetAt == NewResetAt(t) IN
         [store |-> StoreSet(store, identifier, RateLimitEntry(1, resetAt)),
          result |-> [allowed |-> TRUE,
                      remaining |-> RATE_LIMIT_MAX_REQUESTS - 1,
                      resetAt |-> resetAt,
                      retryAfterSeconds |-> CeilDiv(resetAt - t, 1000)]]
    ELSE IF LimitReached(entry)
      THEN [store |-> store,
            result |-> [allowed |-> FALSE,
                        remaining |-> 0,
                        resetAt |-> entry.resetAt,
                        retryAfterSeconds |->
                          Max(1, CeilDiv(entry.resetAt - t, 1000))]]
      ELSE LET bumped == RateLimitEntry(IncrementedCount(entry), entry.resetAt) IN
           [store |-> StoreSet(store, identifier, bumped),
            result |-> [allowed |-> TRUE,
                        remaining |-> Max(0, RATE_LIMIT_MAX_REQUESTS - bumped.count),
                        resetAt |-> entry.resetAt,
                        retryAfterSeconds |->
                          Max(1, CeilDiv(entry.resetAt - t, 1000))]]

\* ------------------------------------------------------------------------
\* Strings
\* ------------------------------------------------------------------------
\* A string is the sequence of its code points.  A code point is written by a
\* name; the names below stand for the classes the program's regular
\* expressions tell apart.  A fixed message of the program is a string of one
\* element, the message.
\*   "a" letter, "1" digit, "." punctuation of the sanitizer's class,
\*   "(" punctuation outside that class, "*" asterisk, " " whitespace,
\*   "GRIN" U+1F600, "TONE" U+1F3FB, "HEART" U+2764, "VS16" U+FE0F,
\*   "ZWJ" U+200D, "LATIN" a non-ASCII letter, "GRIN_HI"/"TONE_HI" the lone
\*   high surrogate left when a UTF-16 slice cuts the pair in two.
Str(message) == <<message>>

\* [a-zA-Z0-9.,!?;:'"@#\-_=+`~<>/\\|]
SanitizerClass == {"a", "1", "."}

\* \p{Extended_Pictographic} or \p{Emoji}
EmojiClass == {"GRIN", "TONE", "HEART", "*", "1"}

\* \s
WhitespaceClass == {" "}

\* Code points outside the Basic Multilingual Plane: two UTF-16 code units.
AstralClass == {"GRIN", "TONE"}

HighSurrogateOf(c) == IF c = "GRIN" THEN "GRIN_HI" ELSE "TONE_HI"

Utf16Units(c) == IF c \in AstralClass THEN 2 ELSE 1

\* UTF-16 code units of the first k code points of s
PrefixUnits(s, k) == k + Cardinality({i \in 1..k : s[i] \in AstralClass})

\* String.prototype.length
Utf16Length(s) == PrefixUnits(s, Len(s))

\* String.prototype.slice(0, n): the first n UTF-16 code units
SliceFromStart(s, n) ==
  LET fits == {k \in 0..Len(s) : PrefixUnits(s, k) <= n}
      k == CHOOSE m \in fits : \A other \in fits : other <= m
  IN IF k < Len(s) /\ PrefixUnits(s, k) < n
       THEN SubSeq(s, 1, k) \o <<HighSurrogateOf(s[k + 1])>>
       ELSE SubSeq(s, 1, k)

TrimStart(s) ==
  LET kept == {i \in 1..Len(s) : s[i] \notin WhitespaceClass} IN
  IF kept = {} THEN <<>>
  ELSE SubSeq(s, CHOOSE i \in kept : \A j \in kept : i <= j, Len(s))

TrimEnd(s) ==
  LET kept == {i \in 1..Len(s) : s[i] \notin WhitespaceClass} IN
  IF kept = {} THEN <<>>
  ELSE SubSeq(s, 1, CHOOSE i \in kept : \A j \in kept : j <= i)

\* String.prototype.trim
Trim(s) == TrimEnd(TrimStart(s))

IsStripped(c) == c \in SanitizerClass

\* The replacement without the g flag: only the first run is removed.
sanitizeEmojiFirstRun(value) ==
  LET stripped == {i \in 1..Len(value) : IsStripped(value[i])} IN
  IF stripped = {} THEN value
  ELSE LET from == CHOOSE i \in stripped : \A j \in stripped : i <= j
           to == CHOOSE i \in from..Len(value) :
                   /\ \A j \in from..i : j \in stripped
                   /\ i = Len(value) \/ i + 1 \notin stripped
       IN SubSeq(value, 1, from - 1) \o SubSeq(value, to + 1, Len(value))

\* value.replace(/[a-zA-Z0-9.,!?;:'"@#\-_=+`~<>/\\|]+/g, "")
sanitizeEmoji(value) == SelectSeq(value, LAMBDA c : ~IsStripped(c))

\* Array.from(value) splits into code points: whole value when it has at most
\* maxEmoji of them, else the first maxEmoji.
clampEmojiStringUncapped(value, maxEmoji) == value
clampEmojiString(value, maxEmoji) ==
  IF maxEmoji <= 0 THEN <<>>
  ELSE IF Len(value) <= maxEmoji THEN value
  ELSE SubSeq(value, 1, maxEmoji)

\* /^[\p{Extended_Pictographic}\p{Emoji}\s]+$/u.test(value)
isEmojiOnly(value) ==
  /\ Len(value) >= 1
  /\ \A i \in 1..Len(value) : value[i] \in EmojiClass \cup WhitespaceClass

\* ------------------------------------------------------------------------
\* Emoji limits
\* ------------------------------------------------------------------------
computeEmojiLimitsFromFive(density) ==
  [verdictMax |-> clampToRange(1 + (IF density >= 5 THEN 1 ELSE 0), 1, 3),
   sentenceMax |-> clampToRange(4 + 2 * density, 4, 24),
   evidenceEmojiMax |-> clampToRange(3 + density, 3, 16)]
computeEmojiLimits(density) ==
  [verdictMax |-> clampToRange(1 + (IF density > 5 THEN 1 ELSE 0), 1, 3),
   sentenceMax |-> clampToRange(4 + 2 * density, 4, 24),
   evidenceEmojiMax |-> clampToRange(3 + density, 3, 16)]

\* ------------------------------------------------------------------------
\* Model output and its validation
\* ------------------------------------------------------------------------
\* A JSON value in a field position: a string, or anything else.
JString(s) == [t |-> "string", s |-> s]

JOther == [t |-> "other", s |-> <<>>]

\* A JSON value in an array position: an array of such values, or anything else.
JArray(items) == [t |-> "array", items |-> items]

JNoArray == [t |-> "other", items |-> <<>>]

\* What JSON.parse gave for the completion: t is "object" for an object, and
\* "array", "number" (truthy, not an object), "zero" (falsy) otherwise.
JObject(v, vt, st, stt, ev, evt, adv) ==
  [t |-> "object", verdict |-> v, verdict_text |-> vt, sentence |-> st,
   sentence_text |-> stt, evidence |-> ev, evidence_text |-> evt,
   status_advice |-> adv]

JNonObject(type) ==
  [t |-> type, verdict |-> JOther, verdict_text |-> JOther, sentence |-> JOther,
   sentence_text |-> JOther, evidence |-> JNoArray, evidence_text |-> JNoArray,
   status_advice |-> JOther]

\* !result
IsFalsyNever(result) == FALSE
IsFalsy(result) == result.t \in {"null", "zero"}

NoVerdict ==
  [verdict |-> <<>>, verdictText |-> <<>>, sentence |-> <<>>,
   sentenceText |-> <<>>, evidence |-> <<>>, evidenceText |-> <<>>,
   statusAdvice |-> <<>>]

Failed(message) == [ok |-> FALSE, error |-> Str(message), value |-> NoVerdict]

\* typeof raw === "string" ? sanitizeEmoji(raw.trim()) : ""
EmojiField(raw) == IF raw.t = "string" THEN sanitizeEmoji(Trim(raw.s)) ELSE <<>>

\* typeof raw === "string" ? raw.trim().slice(0, cap) : ""
TextFieldOrBlank(raw, cap) ==
  IF raw.t = "string" THEN SliceFromStart(Trim(raw.s), cap) ELSE <<" ">>
TextField(raw, cap) ==
  IF raw.t = "string" THEN SliceFromStart(Trim(raw.s), cap) ELSE <<>>

RECURSIVE KeptEvidenceUntilSkipped(_, _)
KeptEvidenceUntilSkipped(items, kept) ==
  IF items = <<>> \/ Len(kept) >= 6 THEN kept
  ELSE LET entry == Head(items)
           sanitized == EmojiField(entry)
       IN IF entry.t = "string" /\ Len(sanitized) # 0 /\ isEmojiOnly(sanitized)
            THEN KeptEvidenceUntilSkipped(Tail(items), Append(kept, sanitized))
            ELSE kept

RECURSIVE KeptEvidence(_, _)
\* the loop over evidenceStrings: entries that are strings, non-empty after
\* sanitizing and emoji-only are pushed until six are kept
KeptEvidence(items, kept) ==
  IF items = <<>> \/ Len(kept) >= 6 THEN kept
  ELSE LET entry == Head(items)
           sanitized == EmojiField(entry)
       IN IF entry.t = "string" /\ Len(sanitized) # 0 /\ isEmojiOnly(sanitized)
            THEN KeptEvidence(Tail(items), Append(kept, sanitized))
            ELSE KeptEvidence(Tail(items), kept)

RECURSIVE KeptEvidenceText(_)
\* evidenceTextArray.forEach: strings that are non-empty after trim, capped
KeptEvidenceText(items) ==
  IF items = <<>> THEN <<>>
  ELSE LET entry == Head(items) IN
       IF entry.t = "string" /\ Trim(entry.s) # <<>>
         THEN <<SliceFromStart(Trim(entry.s), 160)>> \o KeptEvidenceText(Tail(items))
         ELSE KeptEvidenceText(Tail(items))

\* evidenceText.length !== evidence.length
LengthMismatchNever(evidenceText, evidence) == FALSE
LengthMismatch(evidenceText, evidence) == Len(evidenceText) # Len(evidence)

validateModelOutput(result, limits) ==
  IF IsFalsy(result) \/ result.t \notin {"object", "array"}
    THEN Failed("Model returned empty response.")
  ELSE
    LET verdict == EmojiField(result.verdict)
        verdictText == TextField(result.verdict_text, 160)
        sentence == EmojiField(result.sentence)
        sentenceText == TextField(result.sentence_text, 160)
        evidenceArray ==
          IF result.evidence.t = "array" THEN result.evidence.items ELSE <<>>
        evidenceTextArray ==
          IF result.evidence_text.t = "array"
            THEN result.evidence_text.items ELSE <<>>
        statusAdvice ==
          IF result.status_advice.t = "string"
            THEN SliceFromStart(Trim(result.status_advice.s), 80)
            ELSE Str("Share responsibly.")
        evidence == KeptEvidence(evidenceArray, <<>>)
        evidenceText == KeptEvidenceText(evidenceTextArray)
    IN
    IF verdict = <<>> \/ ~isEmojiOnly(verdict)
      THEN Failed("Model verdict missing or not emoji-only.")
    ELSE IF verdictText = <<>>
      THEN Failed("Model verdict_text missing or empty.")
    ELSE IF sentence = <<>> \/ ~isEmojiOnly(sentence)
      THEN Failed("Model sentence missing or not emoji-only.")
    ELSE IF sentenceText = <<>>
      THEN Failed("Model sentence_text missing or empty.")
    ELSE IF Len(evidence) = 0
      THEN Failed("Model evidence missing or invalid.")
    ELSE IF LengthMismatch(evidenceText, evidence)
      THEN Failed("Model evidence_text length mismatch.")
    ELSE
      [ok |-> TRUE, error |-> <<>>,
       value |->
         [verdict |-> clampEmojiString(verdict, limits.verdictMax),
          verdictText |-> verdictText,
          sentence |-> clampEmojiString(sentence, limits.sentenceMax),
          sentenceText |-> sentenceText,
          evidence |-> [i \in 1..Len(evidence) |->
                          clampEmojiString(evidence[i], limits.evidenceEmojiMax)],
          evidenceText |-> evidenceText,
          statusAdvice |-> statusAdvice]]

\* ------------------------------------------------------------------------
\* Stream events and share payload
\* ------------------------------------------------------------------------
MAX_CHAR_COUNT == 500

NoUrl ==
  [v |-> "none", d |-> 0, verdict |-> <<>>, verdict_text |-> <<>>,
   sentence |-> <<>>, sentence_text |-> <<>>, evidence |-> <<>>,
   evidence_text |-> <<>>, seed |-> "", text |-> <<>>]

Event(field, content, message, index, replace, url, type) ==
  [field |-> field, content |-> content, message |-> message, index |-> index,
   replace |-> replace, url |-> url, type |-> type]

createStatusEvent(content) == Event("status", content, <<>>, -1, FALSE, NoUrl, "")

createErrorEvent(message) == Event("error", <<>>, message, -1, FALSE, NoUrl, "")

FieldEvent(field, content) == Event(field, content, <<>>, -1, TRUE, NoUrl, "")

IndexedFieldEventAppended(field, index, content) ==
  Event(field, content, <<>>, index, FALSE, NoUrl, "")
IndexedFieldEvent(field, index, content) ==
  Event(field, content, <<>>, index, TRUE, NoUrl, "")

ShareEvent(url, type) == Event("share", <<>>, <<>>, -1, FALSE, url, type)

DoneEvent == Event("done", <<>>, <<>>, -1, FALSE, NoUrl, "")

createSharePayload(text, density, validated, seed) ==
  [v |-> "1", d |-> density, verdict |-> validated.verdict,
   verdict_text |-> validated.verdictText, sentence |-> validated.sentence,
   sentence_text |-> validated.sentenceText, evidence |-> validated.evidence,
   evidence_text |-> validated.evidenceText, seed |-> seed, text |-> text]

\* closeWithError: the error event is enqueued and the controller closed.
closeWithErrorThenDone(events, message) ==
  events \o <<createErrorEvent(message), DoneEvent>>
closeWithError(events, message) == Append(events, createErrorEvent(message))

\* The field events of a validated verdict, lines 664-678 (index is 0-based).
VerdictEventsInterleaved(validated) ==
  <<createStatusEvent(Str("Finalizing verdict scroll...")),
    FieldEvent("verdict", validated.verdict),
    FieldEvent("verdict_text", validated.verdictText),
    FieldEvent("sentence", validated.sentence),
    FieldEvent("sentence_text", validated.sentenceText)>>
  \o [i \in 1..(2 * Len(validated.evidence)) |->
        IF i % 2 = 1
          THEN IndexedFieldEvent("evidence", (i - 1) \div 2,
                                 validated.evidence[(i + 1) \div 2])
          ELSE IndexedFieldEvent("evidence_text", (i - 1) \div 2,
                                 validated.evidenceText[i \div 2])]
  \o <<createStatusEvent(validated.statusAdvice)>>
VerdictEventsWithoutAdvice(validated) ==
  <<createStatusEvent(Str("Finalizing verdict scroll...")),
    FieldEvent("verdict", validated.verdict),
    FieldEvent("verdict_text", validated.verdictText),
    FieldEvent("sentence", validated.sentence),
    FieldEvent("sentence_text", validated.sentenceText)>>
  \o [i \in 1..Len(validated.evidence) |->
        IndexedFieldEvent("evidence", i - 1, validated.evidence[i])]
  \o [i \in 1..Len(validated.evidenceText) |->
        IndexedFieldEvent("evidence_text", i - 1, validated.evidenceText[i])]
VerdictEvents(validated) ==
  <<createStatusEvent(Str("Finalizing verdict scroll...")),
    FieldEvent("verdict", validated.verdict),
    FieldEvent("verdict_text", validated.verdictText),
    FieldEvent("sentence", validated.sentence),
    FieldEvent("sentence_text", validated.sentenceText)>>
  \o [i \in 1..Len(validated.evidence) |->
        IndexedFieldEvent("evidence", i - 1, validated.evidence[i])]
  \o [i \in 1..Len(validated.evidenceText) |->
        IndexedFieldEvent("evidence_text", i - 1, validated.evidenceText[i])]
  \o <<createStatusEvent(validated.statusAdvice)>>

\* ------------------------------------------------------------------------
\* Inputs: request bodies and replies of the external services
\* ------------------------------------------------------------------------
\* Evidence entries of the well-formed model outputs that are tried.
MaxEvidence == 7

Seeds == {"uuid-1", "uuid-2"}

UpstreamBodies == {Str("upstream body 1"), Str("upstream body 2")}

PlainText == <<"a", " ", "a">>

PaddedText == <<" ", "a", "(">>

LongText == [i \in 1..(MAX_CHAR_COUNT + 1) |-> "a"]

Num(n) == [nan |-> FALSE, value |-> n]

NotANumber == [nan |-> TRUE, value |-> 0]

\* The density member of the body as JSON gave it: a number, a string that
\* reads as a number ("12"), a string that does not ("high"), null, or absent.
DNumber(n) == [t |-> "number", n |-> n]

DNumericString(n) == [t |-> "numeric string", n |-> n]

DWords == [t |-> "words", n |-> 0]

DNull == [t |-> "null", n |-> 0]

DAbsent == [t |-> "absent", n |-> 0]

\* typeof density === "number" ? density : Number(density)
ToNumber(density) ==
  IF density.t \in {"number", "numeric string"} THEN Num(density.n)
  ELSE IF density.t = "null" THEN Num(0)
  ELSE NotANumber

\* request.json(): json is "invalid" when parsing fails, "nonobject" for a
\* value that is not an object.
RequestBodies ==
  {[json |-> "invalid", text |-> JOther, density |-> DAbsent],
   [json |-> "nonobject", text |-> JOther, density |-> DAbsent],
   [json |-> "object", text |-> JOther, density |-> DNumber(5)],
   [json |-> "object", text |-> JString(<<>>), density |-> DNumber(5)],
   [json |-> "object", text |-> JString(<<" ", " ">>), density |-> DNumber(5)],
   [json |-> "object", text |-> JString(LongText), density |-> DNumber(5)],
   [json |-> "object", text |-> JString(PlainText), density |-> DWords],
   [json |-> "object", text |-> JString(PlainText), density |-> DAbsent],
   [json |-> "object", text |-> JString(PlainText), density |-> DNull],
   [json |-> "object", text |-> JString(PlainText), density |-> DNumber(5)],
   [json |-> "object", text |-> JString(PaddedText), density |-> DNumericString(12)]}

NoBody == [json |-> "none", text |-> JOther, density |-> DAbsent]

\* action, reason, safeText and safe_text are the members of that name of the
\* object parsed from the output text; the prompt of line 160 asks the
\* moderator for safe_text.
ModerationReply(kind, body, action, reason, safeText) ==
  [kind |-> kind, body |-> body, action |-> action, reason |-> reason,
   safeText |-> safeText, safe_text |-> JOther]

\* The reply the prompt asks for when the text is to be rewritten.
RewriteAsPrompted(reason, replacement) ==
  [ModerationReply("parsed", <<>>, "rewrite", reason, JOther)
     EXCEPT !.safe_text = JString(replacement)]

\* kind: "network" fetch rejects, "http" !response.ok, "badjson"
\* response.json() rejects, "notext" no output text, "unparsable" JSON.parse
\* of the output text throws, "parsed" an object was parsed.
ModerationReplies ==
  {ModerationReply("network", <<>>, "", JOther, JOther),
   ModerationReply("badjson", <<>>, "", JOther, JOther),
   ModerationReply("notext", <<>>, "", JOther, JOther),
   ModerationReply("unparsable", <<>>, "", JOther, JOther),
   ModerationReply("parsed", <<>>, "allow", JOther, JOther),
   ModerationReply("parsed", <<>>, "absent", JOther, JOther),
   ModerationReply("parsed", <<>>, "rewrite", JString(Str("R")),
                   JString(<<"a", "GRIN">>)),
   ModerationReply("parsed", <<>>, "rewrite", JOther, JOther),
   RewriteAsPrompted(JString(Str("R")), <<"a", "GRIN">>),
   ModerationReply("parsed", <<>>, "rewrite", JOther, JString(<<>>)),
   ModerationReply("parsed", <<>>, "block", JString(Str("R")), JOther),
   ModerationReply("parsed", <<>>, "block", JOther, JOther)}
  \cup {ModerationReply("http", b, "", JOther, JOther) : b \in UpstreamBodies}

\* kind: "thrown" the call rejects or !response.ok, "notext", "parsed".
DetectReplies ==
  {[kind |-> "thrown", language |-> ""],
   [kind |-> "notext", language |-> ""],
   [kind |-> "parsed", language |-> "en"],
   [kind |-> "parsed", language |-> "fr"]}

TranslateReplies ==
  {[kind |-> "thrown", text |-> JOther],
   [kind |-> "notext", text |-> JOther],
   [kind |-> "parsed", text |-> JOther],
   [kind |-> "parsed", text |-> JString(<<"a", "a">>)]}

Emoji1 == <<"GRIN">>

Emoji2 == <<"GRIN", "HEART">>

Emoji3 == <<"HEART", "GRIN", "GRIN", "GRIN">>

Words == <<"a", " ", "a">>

\* A model output every field of which is as the prompt asks, with n evidence
\* entries and n evidence_text entries.
WellFormedOutput(n) ==
  JObject(JString(Emoji1), JString(Words), JString(Emoji2), JString(Words),
          JArray([i \in 1..n |-> JString(IF i = 1 THEN Emoji3 ELSE Emoji1)]),
          JArray([i \in 1..n |-> JString(Words)]),
          JString(<<"a", "a">>))

ModelOutputs ==
  \* one, three, six and more than six evidence entries
  {WellFormedOutput(n) : n \in {1, 3} \cup 6..MaxEvidence}
  \cup
  {JNonObject("null"), JNonObject("zero"), JNonObject("number"),
   JNonObject("array"),
   \* three evidence entries, two evidence_text entries
   JObject(JString(Emoji1), JString(Words), JString(Emoji2), JString(Words),
           JArray(<<JString(Emoji1), JString(Emoji1), JString(Emoji1)>>),
           JArray(<<JString(Words), JString(Words)>>), JString(<<"a">>)),
   \* two evidence entries, two evidence_text entries of which one is blank
   JObject(JString(Emoji1), JString(Words), JString(Emoji2), JString(Words),
           JArray(<<JString(Emoji1), JString(Emoji2)>>),
           JArray(<<JString(<<" ">>), JString(Words)>>), JString(<<"a">>)),
   \* verdict of letters only
   JObject(JString(<<"a", "a">>), JString(Words), JString(Emoji2), JString(Words),
           JArray(<<JString(Emoji1)>>), JArray(<<JString(Words)>>), JOther),
   \* letters mixed into the emoji fields, one evidence entry not emoji,
   \* verdict longer than its cap, no status_advice
   JObject(JString(<<"a", "GRIN", "GRIN", "HEART", "GRIN">>), JString(Words),
           JString(<<" ", "GRIN", "1", "HEART">>), JString(<<" ", "a", " ">>),
           JArray(<<JString(<<"LATIN">>), JString(Emoji2), JOther>>),
           JArray(<<JString(<<" ">>), JString(Words)>>), JOther)}

\* kind: "network" fetch rejects, "http" !response.ok (temperature: the error
\* is the unsupported-temperature error), "badjson" response.json() rejects,
\* "ok" with content "absent", "unparsable" or "json" (value is what
\* JSON.parse returned).
GenerationReplies ==
  {[kind |-> k, temperature |-> FALSE, body |-> <<>>,
    content |-> "absent", value |-> JNonObject("null")] :
     k \in {"network", "badjson"}}
  \cup {[kind |-> "http", temperature |-> t, body |-> b,
         content |-> "absent", value |-> JNonObject("null")] :
          t \in BOOLEAN, b \in UpstreamBodies}
  \cup {[kind |-> "ok", temperature |-> FALSE, body |-> <<>>,
         content |-> c, value |-> JNonObject("null")] :
          c \in {"absent", "unparsable"}}
  \cup {[kind |-> "ok", temperature |-> FALSE, body |-> <<>>,
         content |-> "json", value |-> v] : v \in ModelOutputs}

\* parseModelJson(content)
parseModelJson(reply) ==
  IF reply.content = "json" THEN reply.value ELSE JNonObject("null")

\* ------------------------------------------------------------------------
\* State
\* ------------------------------------------------------------------------
VARIABLES
  now,             \* Date.now()
  rateLimitStore,  \* the process-wide Map identifier -> RateLimitEntry
  history,         \* bookkeeping: per identifier, the calls of the current 24h span
  lastCall,        \* bookkeeping: the latest applyRateLimit call and its result
  inflight,        \* position of each concurrently handled POST request
  config,          \* process environment: credentials and model choice
  served,          \* requests that reached the rate limit gate so far
  settled,         \* what the latest external call of the stream settled with
  validation,      \* validateModelOutput called on its own: arguments and outcome
  client,          \* the page in the browser: its state and the stream it reads
  post             \* the request the pipeline is handling and its stream

vars == <<now, rateLimitStore, history, lastCall, inflight, config, served,
          settled, validation, client, post>>

limiterVars == <<rateLimitStore, history, lastCall>>

pipelineVars == <<config, served, settled, post>>

NoHistory == [first |-> 0, calls |-> 0, allowed |-> 0]

NoCall ==
  [made |-> FALSE, id |-> "X", at |-> 0, k |-> 0, before |-> NoEntry,
   result |-> [allowed |-> FALSE, remaining |-> 0, resetAt |-> 0,
               retryAfterSeconds |-> 0]]

IdleSlot == [pc |-> "idle", id |-> "X"]

\* Bookkeeping only: the calls an identifier made since the first call of the
\* 24h span that time t falls in, counted without looking at the store.
Recorded(h, t, wasAllowed) ==
  IF h.calls = 0 \/ t >= h.first + RATE_LIMIT_WINDOW_MS
    THEN [first |-> t, calls |-> 1, allowed |-> IF wasAllowed THEN 1 ELSE 0]
    ELSE [first |-> h.first, calls |-> h.calls + 1,
          allowed |-> h.allowed + (IF wasAllowed THEN 1 ELSE 0)]

CanRecord(identifier) ==
  \/ history[identifier].calls < MaxCallsPerWindow
  \/ now >= history[identifier].first + RATE_LIMIT_WINDOW_MS

\* The state change of one applyRateLimit(identifier) call at the current time.
RateLimitCallTwice(identifier) ==
  LET out == applyRateLimit(rateLimitStore, identifier, now)
      again == applyRateLimit(out.store, identifier, now)
  IN
  /\ CanRecord(identifier)
  /\ rateLimitStore' = again.store
  /\ history' = [history EXCEPT
                   ![identifier] = Recorded(@, now, out.result.allowed)]
  /\ lastCall' = [made |-> TRUE, id |-> identifier, at |-> now,
                  k |-> history'[identifier].calls,
                  before |-> rateLimitStore[identifier],
                  result |-> out.result]
RateLimitCall(identifier) ==
  LET out == applyRateLimit(rateLimitStore, identifier, now) IN
  /\ CanRecord(identifier)
  /\ rateLimitStore' = out.store
  /\ history' = [history EXCEPT
                   ![identifier] = Recorded(@, now, out.result.allowed)]
  /\ lastCall' = [made |-> TRUE, id |-> identifier, at |-> now,
                  k |-> history'[identifier].calls,
                  before |-> rateLimitStore[identifier],
                  result |-> out.result]

\* apiKey: OPENAI_API_KEY is set; temperature: OPENAI_VERDICT_MODEL names a
\* model other than gpt-5-nano, so that fetchVerdict sends a temperature.
Configs == [apiKey : BOOLEAN, temperature : BOOLEAN]

DefaultConfig == [apiKey |-> TRUE, temperature |-> FALSE]

NoModeration == ModerationReply("none", <<>>, "", JOther, JOther)

NoDetection == [kind |-> "none", language |-> ""]

NoTranslation == [kind |-> "none", text |-> JOther]

NoReply == <<"none">>

\* The page before anything has happened in it.
NoSearch == [none |-> TRUE]

NoPayload == NoUrl

\* useState initial values, lines 876-894
InitialState ==
  [input |-> <<>>, density |-> 5, error |-> <<>>, isStreaming |-> FALSE,
   statusMessage |-> <<>>, streamError |-> <<>>, verdict |-> <<>>,
   sentence |-> <<>>, evidence |-> <<>>, verdictText |-> <<>>,
   sentenceText |-> <<>>, evidenceText |-> <<>>, shareUrl |-> NoSearch,
   shareStatus |-> <<>>, shareType |-> "", ogImageUrl |-> NoSearch,
   isGeneratingOg |-> FALSE, ogError |-> <<>>]

NoShared == [handled |-> FALSE, payload |-> NoPayload, shortlink |-> NoSearch,
             og |-> NoSearch]

\* The variables of a render the functions of a submission read
RenderOf(state) ==
  [input |-> state.input, density |-> state.density,
   verdict |-> state.verdict, verdictText |-> state.verdictText,
   sentence |-> state.sentence, sentenceText |-> state.sentenceText,
   evidence |-> state.evidence, evidenceText |-> state.evidenceText]

\* state: the state of the latest render.  render: the state of the render in
\* which handleSubmit ran, which the functions of that submission read.
\* search: the query of window.location.  wire: the response text not yet
\* delivered.  processed: the lines passed to processStreamLine.  Bookkeeping:
\* linked is the payload the opened link was made from, emitted counts the
\* event lines of the response, length the characters of the response text,
\* midLine records that a chunk ended inside a line, shared what handleShareChunk sent, card what the OG route decoded.
NoClient ==
  [pc |-> "idle", state |-> InitialState, render |-> RenderOf(InitialState),
   search |-> NoSearch, linked |-> NoPayload, shareHydrated |-> FALSE,
   submissions |-> 0, wire |-> <<>>, length |-> 0, events |-> <<>>,
   buffer |-> <<>>,
   processed |-> <<>>, midLine |-> FALSE, shortlinkUp |-> TRUE,
   shared |-> NoShared, card |-> [decoded |-> FALSE, payload |-> NoPayload]]

NoValidation ==
  [called |-> FALSE, result |-> JNonObject("null"), density |-> 0,
   limits |-> computeEmojiLimits(0), event |-> DoneEvent,
   outcome |-> Failed("")]

NoGeneration ==
  [kind |-> "none", temperature |-> FALSE, body |-> <<>>, content |-> "absent",
   value |-> JNonObject("null")]

IdlePost ==
  [pc |-> "idle", id |-> "X", body |-> NoBody, text |-> <<>>, density |-> 0,
   status |-> 0, error |-> <<>>, retryAfterSeconds |-> 0, remaining |-> 0,
   retryAfterHeader |-> 0,
   cancelled |-> FALSE, events |-> <<>>, calls |-> <<>>,
   moderation |-> NoModeration, moderatedText |-> <<>>,
   detection |-> NoDetection, translation |-> NoTranslation,
   detectedLanguage |-> "", translatedText |-> <<>>, wasTranslated |-> FALSE,
   languageFailed |-> FALSE,
   generation |-> NoGeneration, shareThrew |-> FALSE, hung |-> FALSE]

\* The process starts with an empty store.
InitLimiter ==
  /\ now = 0
  /\ rateLimitStore = [i \in Identifiers |-> NoEntry]
  /\ history = [i \in Identifiers |-> NoHistory]
  /\ lastCall = NoCall
  /\ inflight = [r \in Slots |-> IdleSlot]
  /\ config = DefaultConfig
  /\ served = 0
  /\ settled = NoReply
  /\ validation = NoValidation
  /\ client = NoClient
  /\ post = IdlePost

\* The pipeline is followed from a fresh process, or from a process in which
\* identifier X has used all but one request of its window and the window ends
\* in one millisecond.
Init ==
  /\ \E used \in {0, RATE_LIMIT_MAX_REQUESTS - 1} :
       /\ now = IF used > 0 THEN RATE_LIMIT_WINDOW_MS - 1 ELSE 0
       /\ rateLimitStore =
            [i \in Identifiers |->
               IF i = "X" /\ used > 0
                 THEN RateLimitEntry(used, RATE_LIMIT_WINDOW_MS) ELSE NoEntry]
       /\ history =
            [i \in Identifiers |->
               IF i = "X" /\ used > 0
                 THEN [first |-> 0, calls |-> used, allowed |-> used]
                 ELSE NoHistory]
  /\ lastCall = NoCall
  /\ inflight = [r \in Slots |-> IdleSlot]
  /\ config \in Configs
  /\ served = 0
  /\ settled = NoReply
  /\ validation = NoValidation
  /\ client = NoClient
  /\ post = IdlePost

\* ------------------------------------------------------------------------
\* Rate limiter alone: sequential calls and the passing of time
\* ------------------------------------------------------------------------
Tick ==
  /\ \E t \in TimePoints : t > now /\ now' = t
  /\ UNCHANGED <<rateLimitStore, history, lastCall, inflight, pipelineVars, validation, client>>

ApplyRateLimit ==
  /\ \E identifier \in Identifiers : RateLimitCall(identifier)
  /\ UNCHANGED <<now, inflight, pipelineVars, validation, client>>

NextRL == ApplyRateLimit \/ Tick

SpecRL == InitLimiter /\ [][NextRL]_vars

\* ------------------------------------------------------------------------
\* Concurrent POST requests up to the rate-limit gate
\* ------------------------------------------------------------------------
\* A request is accepted and POST suspends at `await request.json()`.
PostArrive(r) ==
  /\ inflight[r].pc \in {"idle", "rejected400", "rejected429", "closed"}
  /\ \E identifier \in ConcurrentIdentifiers :
       inflight' = [inflight EXCEPT ![r] = [pc |-> "awaitBody", id |-> identifier]]
  /\ UNCHANGED <<now, rateLimitStore, history, lastCall, pipelineVars, validation, client>>

\* The body has arrived: the synchronous stretch of POST from the body checks
\* to the 400 / 429 response or the opening of the stream.
PostGate(r) ==
  /\ inflight[r].pc = "awaitBody"
  /\ \E bodyValid \in BOOLEAN :
       IF ~bodyValid
         THEN /\ inflight' = [inflight EXCEPT ![r].pc = "rejected400"]
              /\ UNCHANGED <<rateLimitStore, history, lastCall>>
         ELSE /\ RateLimitCall(inflight[r].id)
              /\ inflight' = [inflight EXCEPT ![r].pc =
                                IF lastCall'.result.allowed
                                  THEN "streaming" ELSE "rejected429"]
  /\ UNCHANGED <<now, pipelineVars, validation, client>>

\* The stream of an admitted request runs to its end.
StreamEnd(r) ==
  /\ inflight[r].pc = "streaming"
  /\ inflight' = [inflight EXCEPT ![r].pc = "closed"]
  /\ UNCHANGED <<now, rateLimitStore, history, lastCall, pipelineVars, validation, client>>

NextConc ==
  \/ \E r \in Slots : PostArrive(r)
  \/ \E r \in Slots : PostGate(r)
  \/ \E r \in Slots : StreamEnd(r)
  \/ Tick

SpecConc == InitLimiter /\ [][NextConc]_vars

\* ------------------------------------------------------------------------
\* The POST handler and its stream
\* ------------------------------------------------------------------------
\* Requests that pass the body checks, received one after the other; a request
\* answered 400 does not reach the gate and is not counted.
MaxRequests == 2

Call(api, text, temperature) ==
  [api |-> api, text |-> text, temperature |-> temperature]

StreamingPcs == {"moderating", "detecting", "translating", "generating", "retrying"}

EndedPcs == {"closed", "aborted"}

\* moderation.action === "block"
IsBlockMisspelt(decision) == decision.action = "blocked"
IsBlock(decision) == decision.action = "block"

\* value ?? fallback, for a value that is a string or absent
OrElseAlwaysFallback(value, fallback) == fallback
OrElse(value, fallback) == IF value.t = "string" THEN value.s ELSE fallback

\* The first sendInvalid of lines 523-547 that applies, or <<>>.
InvalidReason(body) ==
  IF body.json # "object" THEN Str("Invalid JSON body.")
  ELSE IF body.text.t # "string" THEN Str("Field 'text' is required.")
  ELSE IF Utf16Length(body.text.s) = 0 \/ Utf16Length(Trim(body.text.s)) = 0
    THEN Str("Provide descriptive text for a verdict.")
  ELSE IF Utf16Length(body.text.s) > MAX_CHAR_COUNT
    THEN Str("Text exceeds 500 character limit.")
  ELSE IF ToNumber(body.density).nan THEN Str("Density must be numeric between 0 and 10.")
  ELSE <<>>

\* controller.enqueue throws once the reader has cancelled the stream; every
\* catch block of start() enqueues too, so start() ends with nothing added.
Abort(p) == [p EXCEPT !.pc = "aborted"]

\* closeWithError(message) reached from a try block or from the outer catch
CloseWithoutEvent(p, message) ==
  IF p.cancelled THEN Abort(p) ELSE [p EXCEPT !.pc = "closed"]
Close(p, message) ==
  IF p.cancelled THEN Abort(p)
  ELSE [p EXCEPT !.events = closeWithError(@, message), !.pc = "closed"]

Enqueue(p, event) == [p EXCEPT !.events = Append(@, event)]

\* fetchVerdict is entered: the chat completion request is sent
StartGenerationFromRequest(p, language, translated, wasTranslated) ==
  [p EXCEPT !.detectedLanguage = language,
            !.translatedText = translated,
            !.wasTranslated = wasTranslated,
            !.calls = Append(@, Call("chat", p.text, config.temperature)),
            !.pc = "generating"]
StartGeneration(p, language, translated, wasTranslated) ==
  [p EXCEPT !.detectedLanguage = language,
            !.translatedText = translated,
            !.wasTranslated = wasTranslated,
            !.calls = Append(@, Call("chat", translated, config.temperature)),
            !.pc = "generating"]

\* catch (languageError), lines 629-639
LanguageFailedIsFatal(p) == Close(p, Str("Language detection failed"))
LanguageFailed(p) ==
  IF p.cancelled THEN Abort(p)
  ELSE StartGeneration(
         Enqueue([p EXCEPT !.languageFailed = TRUE],
                 createStatusEvent(Str(
                   "Language services unavailable. Proceeding with original wording."))),
         "en", p.moderatedText, FALSE)

\* moderateCase after the reply: what it throws or returns
moderateCaseFailOpen(text, reply) ==
  IF reply.kind \in {"network", "http", "badjson", "notext", "unparsable"}
    THEN [threw |-> FALSE, message |-> <<>>,
          action |-> "allow", reason |-> JOther, safeText |-> JOther]
  ELSE [threw |-> FALSE, message |-> <<>>,
        action |-> IF reply.action = "absent" THEN "allow" ELSE reply.action,
        reason |-> reply.reason,
        safeText |-> IF reply.action = "rewrite" /\ reply.safeText.t # "string"
                       THEN JString(text) ELSE reply.safeText]
moderateCase(text, reply) ==
  IF reply.kind = "network"
    THEN [threw |-> TRUE, message |-> Str("fetch failed"),
          action |-> "", reason |-> JOther, safeText |-> JOther]
  ELSE IF reply.kind = "http"
    THEN [threw |-> TRUE,
          message |-> Str("Moderation request failed: ") \o reply.body,
          action |-> "", reason |-> JOther, safeText |-> JOther]
  ELSE IF reply.kind = "badjson"
    THEN [threw |-> TRUE, message |-> Str("Unexpected end of JSON input"),
          action |-> "", reason |-> JOther, safeText |-> JOther]
  ELSE IF reply.kind \in {"notext", "unparsable"}
    THEN [threw |-> FALSE, message |-> <<>>,
          action |-> "allow", reason |-> JOther, safeText |-> JOther]
  ELSE [threw |-> FALSE, message |-> <<>>,
        action |-> IF reply.action = "absent" THEN "allow" ELSE reply.action,
        reason |-> reply.reason,
        safeText |-> IF reply.action = "rewrite" /\ reply.safeText.t # "string"
                       THEN JString(text) ELSE reply.safeText]

toUpperCase(language) == IF language = "fr" THEN "FR" ELSE "EN"

\* The catch block of lines 693-697
ShareFailedIsError(message) == createErrorEvent(message)
ShareFailed(message) ==
  createStatusEvent(<<"Share payload warning: ">> \o message)

\* Lines 647-701: from the parsed completion to the end of the stream.
\* shareThrows: createSharePayload or createDirectShareUrl throws.  The encoded
\* length of the URL is not computed: long says whether it exceeds
\* MAX_URL_LENGTH.
FinishStreamVerdictFirst(p, verdictResult, shareThrows, seed, long) ==
  IF p.cancelled THEN Abort(p)
  ELSE IF IsFalsy(verdictResult)
    THEN Close(p, Str("Emoji court could not render a verdict. Try again."))
  ELSE
    LET checked == validateModelOutput(verdictResult, computeEmojiLimits(p.density))
        early == FieldEvent("verdict",
                            IF verdictResult.verdict.t = "string"
                              THEN verdictResult.verdict.s ELSE <<>>)
    IN
    IF ~checked.ok THEN Close(Enqueue(p, early), checked.error)
    ELSE
      LET payload == createSharePayload(Trim(p.moderatedText), p.density,
                                        checked.value, seed)
          shareStep ==
            IF shareThrows
              THEN ShareFailed(Str("share failure"))
              ELSE ShareEvent(payload, IF long THEN "long" ELSE "direct")
      IN [p EXCEPT !.events = @ \o VerdictEvents(checked.value)
                                \o <<shareStep, DoneEvent>>,
                   !.shareThrew = shareThrows,
                   !.pc = "closed"]
FinishStream(p, verdictResult, shareThrows, seed, long) ==
  IF p.cancelled THEN Abort(p)
  ELSE IF IsFalsy(verdictResult)
    THEN Close(p, Str("Emoji court could not render a verdict. Try again."))
  ELSE
    LET checked == validateModelOutput(verdictResult, computeEmojiLimits(p.density)) IN
    IF ~checked.ok THEN Close(p, checked.error)
    ELSE
      LET payload == createSharePayload(Trim(p.moderatedText), p.density,
                                        checked.value, seed)
          shareStep ==
            IF shareThrows
              THEN ShareFailed(Str("share failure"))
              ELSE ShareEvent(payload, IF long THEN "long" ELSE "direct")
      IN [p EXCEPT !.events = @ \o VerdictEvents(checked.value)
                                \o <<shareStep, DoneEvent>>,
                   !.shareThrew = shareThrows,
                   !.pc = "closed"]

\* Lines 647-686 reach the share step: the stream is open and the completion
\* parsed and validated.  Only then are seed, the share failure and the length
\* of the URL consulted.
BuildsShare(p, reply) ==
  /\ reply.kind = "ok"
  /\ ~p.cancelled
  /\ ~IsFalsy(parseModelJson(reply))
  /\ validateModelOutput(parseModelJson(reply), computeEmojiLimits(p.density)).ok

\* The 429 response of lines 555-569
TooManyRequestsHeaderIsResetAt(p, rateLimit) ==
  [p EXCEPT
     !.pc = "rejected429", !.status = 429,
     !.error = Str("Our emoji docket is jam-packed for today! Please come back tomorrow with fresh takes."),
     !.retryAfterSeconds = rateLimit.retryAfterSeconds,
     !.remaining = rateLimit.remaining,
     !.retryAfterHeader = rateLimit.resetAt]
TooManyRequests(p, rateLimit) ==
  [p EXCEPT
     !.pc = "rejected429", !.status = 429,
     !.error = Str("Our emoji docket is jam-packed for today! Please come back tomorrow with fresh takes."),
     !.retryAfterSeconds = rateLimit.retryAfterSeconds,
     !.remaining = rateLimit.remaining,
     !.retryAfterHeader = rateLimit.retryAfterSeconds]

\* return sendInvalid(message), lines 515-547: POST answers 400 and returns
\* before it reaches applyRateLimit.
sendInvalidCounted(body, message) ==
  /\ post' = [post EXCEPT !.pc = "rejected400", !.status = 400,
                          !.body = body, !.error = message]
  /\ RateLimitCall(post.id)
  /\ UNCHANGED served
sendInvalid(body, message) ==
  /\ post' = [post EXCEPT !.pc = "rejected400", !.status = 400,
                          !.body = body, !.error = message]
  /\ UNCHANGED <<limiterVars, served>>

\* A request arrives; POST suspends at `await request.json()`.
PostReceive ==
  /\ post.pc \in {"idle", "rejected400", "rejected429"} \cup EndedPcs
  /\ served < MaxRequests
  /\ settled' = NoReply
  /\ post' = [IdlePost EXCEPT !.pc = "awaitBody"]
  /\ UNCHANGED <<now, limiterVars, inflight, config, served, validation, client>>

\* The body has arrived: lines 513-586 up to the first await of start(), that
\* is the 400 or 429 response, or the stream with its first status event and
\* the moderation request sent.
PostBody ==
  /\ post.pc = "awaitBody"
  /\ \E body \in RequestBodies :
       LET invalid == InvalidReason(body) IN
       IF invalid # <<>>
         THEN sendInvalid(body, invalid)
         ELSE
           LET text == body.text.s
               clampedDensity == clampToRange(ToNumber(body.density).value, 0, 10)
               opened ==
                 [post EXCEPT !.body = body,
                              !.text = text, !.density = clampedDensity,
                              !.status = 200,
                              !.events = <<createStatusEvent(Str("Reviewing case file..."))>>]
           IN
           /\ RateLimitCall(post.id)
           /\ served' = served + 1
           /\ post' =
                IF ~lastCall'.result.allowed
                  THEN TooManyRequests(
                         [post EXCEPT !.body = body, !.text = text,
                                      !.density = clampedDensity],
                         lastCall'.result)
                ELSE IF ~config.apiKey
                  THEN Close(opened, Str("OpenAI credentials are not configured."))
                ELSE [opened EXCEPT
                        !.calls = <<Call("moderation", text, FALSE)>>,
                        !.pc = "moderating"]
  /\ UNCHANGED <<now, inflight, config, settled, validation, client>>

\* The moderation call settles: lines 586-612 up to the detection request.
ModerationReturns ==
  /\ post.pc = "moderating"
  /\ ~post.hung
  /\ \E reply \in ModerationReplies :
       /\ settled' = <<"moderation", reply>>
       /\ LET decision == moderateCase(post.text, reply)
              p == [post EXCEPT !.moderation = reply]
          IN post' =
               IF decision.threw THEN Close(p, decision.message)
               ELSE IF IsBlock(decision)
                 THEN Close(p, OrElse(decision.reason,
                        Str("Case dismissed: this submission breaks the Emoji Court rulebook.")))
               ELSE
                 LET rewritten ==
                       /\ decision.action = "rewrite"
                       /\ decision.safeText.t = "string"
                       /\ decision.safeText.s # <<>>
                     moderatedText == IF rewritten THEN decision.safeText.s ELSE post.text
                     withText == [p EXCEPT !.moderatedText = moderatedText]
                     withStatus ==
                       IF rewritten
                         THEN Enqueue(withText, createStatusEvent(OrElse(decision.reason,
                                Str("Content was rewritten into a playful warning to keep things court-approved."))))
                         ELSE withText
                 IN IF rewritten /\ p.cancelled THEN Abort(withText)
                    ELSE [withStatus EXCEPT
                            !.calls = Append(@, Call("detect", moderatedText, FALSE)),
                            !.pc = "detecting"]
  /\ UNCHANGED <<now, limiterVars, inflight, config, served, validation, client>>

\* The detection call settles: lines 612-617 (and 629-645 when it failed).
DetectReturns ==
  /\ post.pc = "detecting"
  /\ ~post.hung
  /\ \E reply \in DetectReplies :
       /\ settled' = <<"detect", reply>>
       /\ LET language == IF reply.kind = "parsed" THEN reply.language ELSE "en"
              p == [post EXCEPT !.detection = reply]
          IN
          post' =
            IF reply.kind = "thrown" THEN LanguageFailed(p)
            ELSE IF language = "en" \/ Trim(post.moderatedText) = <<>>
              THEN StartGeneration(p, language, post.moderatedText, FALSE)
            ELSE [p EXCEPT
                    !.detectedLanguage = language,
                    !.calls = Append(@, Call("translate", post.moderatedText, FALSE)),
                    !.pc = "translating"]
  /\ UNCHANGED <<now, limiterVars, inflight, config, served, validation, client>>

\* The translation call settles: lines 613-645.
TranslateReturns ==
  /\ post.pc = "translating"
  /\ ~post.hung
  /\ \E reply \in TranslateReplies :
       /\ settled' = <<"translate", reply>>
       /\ LET translated ==
                IF reply.kind = "parsed" /\ reply.text.t = "string"
                  THEN reply.text.s ELSE post.moderatedText
              wasTranslated == translated # post.moderatedText
              p == [post EXCEPT !.translation = reply]
          IN post' =
               IF reply.kind = "thrown" THEN LanguageFailed(p)
               ELSE IF ~wasTranslated
                 THEN StartGeneration(p, post.detectedLanguage, translated, FALSE)
               ELSE IF post.cancelled THEN Abort(p)
               ELSE StartGeneration(
                      Enqueue(p, createStatusEvent(
                        <<"Translated from ", toUpperCase(post.detectedLanguage),
                          " for consistent emoji verdict.">>)),
                      post.detectedLanguage, translated, TRUE)
  /\ UNCHANGED <<now, limiterVars, inflight, config, served, validation, client>>

\* The condition of lines 336-342 on a response that is not ok: reply.temperature
\* says that the error message names the temperature and the code is
\* "unsupported_value".
IsTemperatureFallbackUnasked(attemptedTemperatureFallback, hasTemperature, reply) ==
  ~attemptedTemperatureFallback /\ reply.temperature
IsTemperatureFallback(attemptedTemperatureFallback, hasTemperature, reply) ==
  ~attemptedTemperatureFallback /\ hasTemperature /\ reply.temperature

\* The chat completion call settles: fetchChatCompletion, fetchVerdict and
\* lines 647-707.
GenerationReturns ==
  /\ post.pc \in {"generating", "retrying"}
  /\ ~post.hung
  /\ \E reply \in GenerationReplies, shareThrows \in BOOLEAN,
        seed \in Seeds, long \in BOOLEAN :
       LET p == [post EXCEPT !.generation = reply]
           hasTemperature == post.calls[Len(post.calls)].temperature
       IN
       /\ settled' = <<"chat", reply, shareThrows, seed, long>>
       /\ shareThrows => (seed = "uuid-1" /\ ~long)
       /\ ~BuildsShare(post, reply) => (~shareThrows /\ seed = "uuid-1" /\ ~long)
       /\ post' =
            IF reply.kind = "network" THEN Close(p, Str("fetch failed"))
            ELSE IF reply.kind = "badjson"
              THEN Close(p, Str("Unexpected end of JSON input"))
            ELSE IF reply.kind = "http"
              THEN IF IsTemperatureFallback(post.pc = "retrying", hasTemperature, reply)
                     THEN [p EXCEPT
                             !.calls = Append(@, Call("chat", post.translatedText, FALSE)),
                             !.pc = "retrying"]
                     ELSE Close(p, Str("OpenAI request failed: ") \o reply.body)
            ELSE FinishStream(p, parseModelJson(reply), shareThrows, seed, long)
  /\ UNCHANGED <<now, limiterVars, inflight, config, served, validation, client>>

\* The client goes away while the stream is open: the reader cancels it.
ClientDisconnect ==
  /\ post.pc \in StreamingPcs
  /\ ~post.cancelled
  /\ post' = [post EXCEPT !.cancelled = TRUE]
  /\ UNCHANGED <<now, limiterVars, inflight, config, served, settled, validation, client>>

Next ==
  \/ PostReceive
  \/ PostBody
  \/ ModerationReturns
  \/ DetectReturns
  \/ TranslateReturns
  \/ GenerationReturns
  \/ ClientDisconnect

Spec == Init /\ [][Next]_vars

\* The continuation of the external call a stream is waiting for.
CallSettles ==
  ModerationReturns \/ DetectReturns \/ TranslateReturns \/ GenerationReturns

\* Every external call eventually settles and its continuation runs.
SpecFair == Init /\ [][Next]_vars /\ WF_vars(CallSettles)

\* The service never answers the call the stream waits for.  fetch is given no
\* signal (lines 152-164, 310-317) and start() sets no timer, so the promise
\* start() awaits stays pending; hung marks the call.
CallHangs ==
  /\ post.pc \in StreamingPcs
  /\ ~post.hung
  /\ post' = [post EXCEPT !.hung = TRUE]
  /\ UNCHANGED <<now, limiterVars, inflight, config, served, settled, validation, client>>

NextHang ==
  \/ PostReceive
  \/ PostBody
  \/ ModerationReturns
  \/ DetectReturns
  \/ TranslateReturns
  \/ GenerationReturns
  \/ ClientDisconnect
  \/ CallHangs

\* The pipeline with services that may leave a call unanswered for ever.
SpecHang == Init /\ [][NextHang]_vars

\* ------------------------------------------------------------------------
\* validateModelOutput on its own
\* ------------------------------------------------------------------------
Run(n, c) == [i \in 1..n |-> c]

\* Values a model may put in an emoji field, a text field, the advice.
EmojiInputs ==
  {JOther, JString(Emoji1), JString(<<"*">>), JString(<<"HEART", "VS16">>),
   JString(<<"a", " ", "a">>),
   JString(<<" ", "a", "GRIN", "1", "TONE", "HEART", ".", " ">>)}

TextInputs == {JOther, JString(<<" ">>), JString(<<" ", "a", "(", "a", " ">>)}

AdviceInputs == {JOther, JString(<<" ", "a", " ">>)}

\* evidence: n emoji entries; the same with the second entry not emoji; and
\* an array of entries that are skipped around one that is kept.
EvidenceInputs ==
  {JNoArray}
  \cup {JArray([i \in 1..n |-> JString(IF i = 1 THEN Emoji3 ELSE Emoji1)]) :
          n \in 0..MaxEvidence}
  \cup {JArray([i \in 1..n |->
                 JString(IF i = 2 THEN <<"LATIN">> ELSE Run(i, "HEART"))]) :
          n \in {3, MaxEvidence}}
  \cup {JArray(<<JOther, JString(<<" ">>), JString(<<"a", "1">>),
                 JString(<<"a", "HEART", " ", "GRIN">>)>>)}

\* evidence_text: n entries, the i-th of i letters; and an array with entries
\* that are skipped.
EvidenceTextInputs ==
  {JNoArray}
  \cup {JArray([i \in 1..n |-> JString(Run(i, "a"))]) : n \in 0..MaxEvidence}
  \cup {JArray(<<JString(<<" ">>), JOther, JString(<<" ", "a">>)>>)}

ShortInputs ==
  {JObject(v, vt, st, stt, ev, evt, adv) :
     v \in EmojiInputs, vt \in TextInputs, st \in {JString(Emoji2), JString(<<"a">>)},
     stt \in {JString(Words), JOther}, ev \in EvidenceInputs,
     evt \in EvidenceTextInputs, adv \in AdviceInputs}

\* Fields longer than every cap: 25 emoji, texts of 161 and 162 UTF-16 code
\* units (the 160th and 161st being the two halves of one emoji), an advice of
\* 81 letters.
LongInputs ==
  {JObject(JString(Run(25, "GRIN")), JString(Run(161, "a")),
           JString(Run(25, "HEART")), JString(Run(159, "a") \o <<"GRIN", "a">>),
           JArray([i \in 1..n |-> JString(Run(17, "TONE"))]),
           JArray([i \in 1..m |-> JString(Run(158 + i, "a"))]),
           JString(Run(81, "a"))) :
     n \in {1, 6, MaxEvidence}, m \in {1, 6}}

ValidatorInputs ==
  ShortInputs \cup LongInputs
  \cup {JNonObject(t) : t \in {"null", "zero", "number", "array"}}

Densities == 0..10

\* The event POST enqueues next to the call, lines 654-664: the error event
\* with the message thrown, or the status that opens the verdict.
AfterValidation(outcome) ==
  IF outcome.ok THEN createStatusEvent(Str("Finalizing verdict scroll..."))
  ELSE createErrorEvent(
         IF outcome.error = <<>>
           THEN Str("Verdict formatting failed validation. Please resubmit.")
           ELSE outcome.error)

\* validateModelOutput(result, computeEmojiLimits(density)) is called.
Validate ==
  /\ ~validation.called
  /\ \E result \in ValidatorInputs, density \in Densities :
       LET limits == computeEmojiLimits(density) IN
       validation' = [called |-> TRUE, result |-> result, density |-> density,
                      limits |-> limits,
                      event |-> AfterValidation(validateModelOutput(result, limits)),
                      outcome |-> validateModelOutput(result, limits)]
  /\ UNCHANGED <<now, limiterVars, inflight, config, served, settled, client, post>>

NextValidator == Validate

SpecValidator == InitLimiter /\ [][NextValidator]_vars

\* ------------------------------------------------------------------------
\* Share links: encoding on the server, decoding in the page and the OG route
\* ------------------------------------------------------------------------
\* The text JSON.stringify writes for a payload.  The text keeps the shape of
\* the payload; the characters of its string literals are the characters of
\* the payload's strings, and everything else in it is ASCII.
JSONStringify(payload) == [json |-> payload]

\* JSON.parse of such a text
JSONParse(text) == text.json

\* The UTF-8 bytes of a code point, in hexadecimal; an ASCII character is one
\* byte, written by the name of the character.
Utf8Bytes(c) ==
  CASE c = "GRIN" -> <<"F0", "9F", "98", "80">>
    [] c = "TONE" -> <<"F0", "9F", "8F", "BB">>
    [] c = "HEART" -> <<"E2", "9D", "A4">>
    [] c = "VS16" -> <<"EF", "B8", "8F">>
    [] c = "ZWJ" -> <<"E2", "80", "8D">>
    [] c = "LATIN" -> <<"C3", "A9">>
    [] OTHER -> <<c>>

NonAscii == {"GRIN", "TONE", "HEART", "VS16", "ZWJ", "LATIN"}

HighBytes == UNION {{Utf8Bytes(c)[i] : i \in 1..Len(Utf8Bytes(c))} : c \in NonAscii}

RECURSIVE Utf8Encode(_)
Utf8Encode(s) ==
  IF s = <<>> THEN <<>> ELSE Utf8Bytes(Head(s)) \o Utf8Encode(Tail(s))

\* The code point a byte sequence starts with, U+FFFD when it starts with
\* none.
RECURSIVE Utf8Decode(_)
Utf8Decode(bytes) ==
  IF bytes = <<>> THEN <<>>
  ELSE IF Head(bytes) \notin HighBytes
    THEN <<Head(bytes)>> \o Utf8Decode(Tail(bytes))
  ELSE
    LET starts == {c \in NonAscii :
                     /\ Len(Utf8Bytes(c)) <= Len(bytes)
                     /\ SubSeq(bytes, 1, Len(Utf8Bytes(c))) = Utf8Bytes(c)}
    IN IF starts = {} THEN <<"U+FFFD">> \o Utf8Decode(Tail(bytes))
       ELSE LET c == CHOOSE x \in starts : TRUE IN
            <<c>> \o Utf8Decode(SubSeq(bytes, Len(Utf8Bytes(c)) + 1, Len(bytes)))

\* The character of a binary string that stands for a byte: the character
\* whose code point is the value of the byte.
ByteChar(b) == IF b \in HighBytes THEN "U+00" \o b ELSE b

BinaryString(bytes) == [i \in 1..Len(bytes) |-> ByteChar(bytes[i])]

\* The byte that stands for a character of a binary string
CharByte(c) == IF c = "LATIN" THEN "E9" ELSE c

\* Characters btoa accepts: code points up to U+00FF
IsLatin1(c) == c \notin NonAscii \ {"LATIN"}

\* f applied to every string of a payload
MapStrings(f(_), payload) ==
  [payload EXCEPT !.verdict = f(@), !.verdict_text = f(@), !.sentence = f(@),
                  !.sentence_text = f(@), !.text = f(@),
                  !.evidence = [i \in DOMAIN @ |-> f(@[i])],
                  !.evidence_text = [i \in DOMAIN @ |-> f(@[i])]]

StringsOf(payload) ==
  {payload.verdict, payload.verdict_text, payload.sentence,
   payload.sentence_text, payload.text}
  \cup {payload.evidence[i] : i \in DOMAIN payload.evidence}
  \cup {payload.evidence_text[i] : i \in DOMAIN payload.evidence_text}

Thrown == [thrown |-> TRUE]

IsThrown(value) == "thrown" \in DOMAIN value

\* Buffer.from(text).toString("base64"): the base64 text of the UTF-8 bytes
BufferToBase64(text) == [base64 |-> MapStrings(Utf8Encode, text.json)]

\* Buffer.from(encoded, "base64").toString("utf-8")
BufferFromBase64(encoded) ==
  IF "base64" \in DOMAIN encoded
    THEN [json |-> MapStrings(Utf8Decode, encoded.base64)]
    ELSE Thrown

\* atob: the binary string of the bytes, one character for each byte.  It
\* throws on a character outside the base64 alphabet, such as "%".
atob(encoded) ==
  IF "base64" \in DOMAIN encoded
    THEN [json |-> MapStrings(BinaryString, encoded.base64)]
    ELSE Thrown

\* btoa: the base64 text of the bytes a binary string stands for.  It throws
\* on a character above U+00FF.
btoa(text) ==
  IF \A s \in StringsOf(text.json) : \A i \in 1..Len(s) : IsLatin1(s[i])
    THEN [base64 |-> MapStrings(LAMBDA s : [i \in 1..Len(s) |-> CharByte(s[i])],
                                text.json)]
    ELSE Thrown

\* encodeURIComponent: "+", "/" and "=" of a base64 text, and "%" of an
\* escaped text, become percent escapes.
encodeURIComponent(value) == [percent |-> value]

\* decodeURIComponent undoes one layer of escapes and leaves a text without
\* escapes as it is.
decodeURIComponent(value) ==
  IF "percent" \in DOMAIN value THEN value.percent ELSE value

\* URLSearchParams.set followed by toString escapes the value once more;
\* URLSearchParams.get undoes one layer.
URLSearchParamsToString(value) == [percent |-> value]

URLSearchParamsGet(search) == decodeURIComponent(search)

\* Lines 493-494
encodeSharePayload(payload) ==
  encodeURIComponent(BufferToBase64(JSONStringify(payload)))

\* Lines 496-500: the query string of the URL "/?case=..."
createDirectShareUrl(payload) ==
  URLSearchParamsToString(encodeSharePayload(payload))

\* ------------------------------------------------------------------------
\* The page: shared-link hydration, submission and the reading of the stream
\* ------------------------------------------------------------------------
\* Submissions followed in one visit of the page.
MaxSubmissions == 2

\* The OG route runs in the edge runtime, where atob is a function.
AtobIsFunction == TRUE

\* Lines 909-914: the effect that runs when the limits change
ReclampEffect(state) ==
  LET emojiLimits == computeEmojiLimits(state.density) IN
  [state EXCEPT
     !.verdict = clampEmojiString(@, emojiLimits.verdictMax),
     !.sentence = clampEmojiString(@, emojiLimits.sentenceMax),
     !.evidence = [i \in DOMAIN @ |->
                     clampEmojiString(@[i], emojiLimits.evidenceEmojiMax)]]

\* Lines 938-942 and 943-990: what the hydration effect decodes from the query, and the
\* state it sets.  A throw of decodeURIComponent, atob or JSON.parse is
\* caught and leaves the state as it was.
HydrationDecode(search) ==
  LET encodedCase == URLSearchParamsGet(search)
      binary == atob(decodeURIComponent(encodedCase))
  IN IF IsThrown(binary) THEN Thrown ELSE JSONParse(binary)

Hydrated(state, search) ==
  LET encodedCase == URLSearchParamsGet(search)
      decodedJson == HydrationDecode(search)
  IN IF IsThrown(decodedJson) THEN state
     ELSE [state EXCEPT
             !.density = clampToRange(decodedJson.d, 0, 10),
             !.input = decodedJson.text,
             !.verdict = decodedJson.verdict,
             !.verdictText = decodedJson.verdict_text,
             !.sentence = decodedJson.sentence,
             !.sentenceText = decodedJson.sentence_text,
             !.evidence = decodedJson.evidence,
             !.evidenceText = decodedJson.evidence_text,
             !.statusMessage = Str("Verdict restored from shared case file."),
             !.streamError = <<>>,
             !.isStreaming = FALSE,
             !.shareUrl = search,
             !.shareType = "direct",
             !.shareStatus = Str("Share link ready."),
             !.ogError = <<>>,
             !.isGeneratingOg = FALSE,
             !.ogImageUrl = encodedCase]

\* og/route.tsx lines 17-28 and 55-62: searchParams.get("case"), then
\* decodePayload
decodePayload(encoded) ==
  LET decodedBase64 == decodeURIComponent(encoded)
      jsonString == IF AtobIsFunction THEN atob(decodedBase64)
                    ELSE BufferFromBase64(decodedBase64)
  IN IF IsThrown(jsonString) THEN Thrown ELSE JSONParse(jsonString)

\* The response text.  The line of the k-th event is the text
\* JSON.stringify writes for it, here two characters, followed by a newline.
\* A character names the event it belongs to and its place in the text;
\* place 0 is the newline.
WireChar(k, place) == [line |-> k, place |-> place]

EventText(k) == <<WireChar(k, 1), WireChar(k, 2)>>

\* Lines of n events; the last newline is left out when newlineAtEnd is FALSE
ResponseText(n, newlineAtEnd) ==
  LET all == [i \in 1..(3 * n) |->
                WireChar((i + 2) \div 3, IF i % 3 = 0 THEN 0 ELSE i % 3)]
  IN IF newlineAtEnd \/ n = 0 THEN all ELSE SubSeq(all, 1, 3 * n - 1)

IsNewline(c) == c.place = 0

\* buffer.indexOf("\n"), 1-based; 0 when there is none
LastNewlineIndex(buffer) ==
  LET at == {i \in 1..Len(buffer) : IsNewline(buffer[i])} IN
  IF at = {} THEN 0 ELSE CHOOSE i \in at : \A j \in at : j <= i
NewlineIndex(buffer) ==
  LET at == {i \in 1..Len(buffer) : IsNewline(buffer[i])} IN
  IF at = {} THEN 0 ELSE CHOOSE i \in at : \A j \in at : i <= j

\* line.trim(): the newline is the only whitespace of the response text
TrimLine(line) ==
  LET kept == {i \in 1..Len(line) : ~IsNewline(line[i])} IN
  IF kept = {} THEN <<>>
  ELSE SubSeq(line, CHOOSE i \in kept : \A j \in kept : i <= j,
                    CHOOSE i \in kept : \A j \in kept : j <= i)

\* JSON.parse(line) succeeds on the whole text of an event
Parses(line) ==
  /\ Len(line) = 2
  /\ line[1].place = 1
  /\ line[2] = WireChar(line[1].line, 2)

\* nextEvidence[targetIndex] = value on a copy of the array; an index past the
\* end leaves holes, which read as undefined
SetAt(items, targetIndex, value) ==
  [i \in 1..Max(Len(items), targetIndex + 1) |->
     IF i = targetIndex + 1 THEN value
     ELSE IF i <= Len(items) THEN items[i] ELSE <<>>]

\* nextEvidence[targetIndex] ?? ""
At(items, targetIndex) ==
  IF targetIndex + 1 <= Len(items) THEN items[targetIndex + 1] ELSE <<>>

\* Lines 809-832
buildSharePayload(data, seed) ==
  [v |-> "1", d |-> data.density, verdict |-> data.verdict,
   verdict_text |-> data.verdictText, sentence |-> data.sentence,
   sentence_text |-> data.sentenceText, evidence |-> data.evidence,
   evidence_text |-> data.evidenceText, seed |-> seed, text |-> data.text]

\* Lines 848-854: the query of "/api/og?case=...", or the throw of btoa
requestOgImage(payload) ==
  LET encoded == btoa(JSONStringify(payload)) IN
  IF IsThrown(encoded) THEN Thrown
  ELSE URLSearchParamsToString(encodeURIComponent(encoded))

\* Lines 1194-1205: the snapshot is read from the variables of the render the
\* function belongs to.
Snapshot(c) ==
  [text |-> Trim(c.render.input), density |-> c.render.density,
   verdict |-> c.render.verdict, verdictText |-> c.render.verdictText,
   sentence |-> c.render.sentence, sentenceText |-> c.render.sentenceText,
   evidence |-> c.render.evidence, evidenceText |-> c.render.evidenceText]

\* Lines 1194-1265.  The awaits of the function are followed to their end in
\* one step; shortlinkUp says whether the shortlink endpoint answers.
handleShareChunk(c, chunk) ==
  LET payload == buildSharePayload(Snapshot(c), "uuid-page")
      long == chunk.type = "long"
      short == long /\ c.shortlinkUp
      ogUrl == requestOgImage(payload)
  IN [c EXCEPT
        !.shared = [handled |-> TRUE, payload |-> payload,
                    shortlink |-> IF long THEN JSONStringify(payload)
                                  ELSE NoSearch,
                    og |-> ogUrl],
        !.state = [@ EXCEPT
           !.shareStatus =
              IF short THEN Str("Shortlink ready.")
              ELSE IF long
                THEN Str("Shortlink service is unavailable. Try copying the direct link instead.")
              ELSE Str("Share link ready."),
           !.shareUrl = IF short THEN [short |-> payload] ELSE chunk.url,
           !.shareType = IF short THEN "short"
                         ELSE IF long THEN "direct"
                         ELSE chunk.type,
           !.ogError = IF IsThrown(ogUrl) THEN Str("InvalidCharacterError")
                       ELSE <<>>,
           !.ogImageUrl = IF IsThrown(ogUrl) THEN @ ELSE ogUrl,
           !.isGeneratingOg = FALSE]]

\* Lines 1187-1190
finalizeStream(state) ==
  [state EXCEPT !.isStreaming = FALSE,
                !.statusMessage = IF @ = <<>> THEN Str("Verdict delivered.")
                                  ELSE @]

\* Lines 1102-1185.  A line that does not parse is logged and dropped.
processStreamLine(c, line) ==
  LET passed == [c EXCEPT !.processed = Append(@, line)]
      chunk == c.events[line[1].line]
      emojiLimits == computeEmojiLimits(c.render.density)
      base(prev) == IF chunk.replace THEN <<>> ELSE prev
      targetIndex == IF chunk.index < 0 THEN 0 ELSE chunk.index
  IN
  IF ~Parses(line) THEN passed
  ELSE CASE chunk.field = "verdict" ->
         [passed EXCEPT !.state.verdict =
            clampEmojiString(sanitizeEmoji(base(@) \o chunk.content),
                             emojiLimits.verdictMax)]
    [] chunk.field = "verdict_text" ->
         [passed EXCEPT !.state.verdictText = base(@) \o chunk.content]
    [] chunk.field = "sentence" ->
         [passed EXCEPT !.state.sentence =
            clampEmojiString(sanitizeEmoji(base(@) \o chunk.content),
                             emojiLimits.sentenceMax)]
    [] chunk.field = "sentence_text" ->
         [passed EXCEPT !.state.sentenceText = base(@) \o chunk.content]
    [] chunk.field = "evidence" ->
         [passed EXCEPT !.state.evidence =
            SetAt(@, targetIndex,
                  clampEmojiString(
                    sanitizeEmoji(base(At(@, targetIndex)) \o chunk.content),
                    emojiLimits.evidenceEmojiMax))]
    [] chunk.field = "evidence_text" ->
         [passed EXCEPT !.state.evidenceText =
            SetAt(@, targetIndex,
                  SliceFromStart(base(At(@, targetIndex)) \o chunk.content, 160))]
    [] chunk.field = "status" ->
         [passed EXCEPT !.state.statusMessage = chunk.content]
    [] chunk.field = "share" -> handleShareChunk(passed, chunk)
    [] chunk.field = "error" ->
         [passed EXCEPT !.state.streamError = chunk.message,
                        !.state.isStreaming = FALSE,
                        !.state.statusMessage = <<>>]
    [] chunk.field = "done" ->
         [passed EXCEPT !.state = finalizeStream(@)]
    [] OTHER -> passed

\* Lines 1074-1082: the lines the buffer holds are taken from it one by one
RECURSIVE DrainBuffer(_)
DrainBuffer(c) ==
  LET newlineIndex == NewlineIndex(c.buffer) IN
  IF newlineIndex = 0 THEN c
  ELSE
    LET line == TrimLine(SubSeq(c.buffer, 1, newlineIndex - 1))
        rest == [c EXCEPT !.buffer = SubSeq(@, newlineIndex + 1, Len(@))]
    IN DrainBuffer(IF Len(line) > 0 THEN processStreamLine(rest, line) ELSE rest)

\* What the page is given: texts typed, densities chosen, and the verdicts
\* the server answers with.
ClientTexts == {PaddedText, <<"GRIN">>}

ClientDensities == {5, 8}

\* A model output whose emoji are all ASCII characters
AsciiOutput ==
  JObject(JString(<<"*">>), JString(Words), JString(<<"*", "*">>),
          JString(<<"a">>), JArray(<<JString(<<"*">>)>>),
          JArray(<<JString(<<"a">>)>>), JString(<<"a", "a">>))

HeartOutput ==
  JObject(JString(<<"HEART", "VS16">>), JString(<<"a">>), JString(Emoji1),
          JString(Words), JArray(<<JString(Emoji2), JString(Emoji1)>>),
          JArray(<<JString(<<"a">>), JString(Words)>>), JString(<<"a">>))

\* The outputs of the verdicts shared by link, and the answers to a submission:
\* the output and whether the link is too long for a direct one
LinkedOutputs == {WellFormedOutput(1), HeartOutput, AsciiOutput}

Answers ==
  {[output |-> WellFormedOutput(1), type |-> "direct"],
   [output |-> HeartOutput, type |-> "long"]}

ValidatedFor(output, density) ==
  validateModelOutput(output, computeEmojiLimits(density)).value

\* The payload the server builds for a request, lines 680-683
ServerPayload(text, density, output) ==
  createSharePayload(Trim(text), density, ValidatedFor(output, density), "uuid-1")

\* The events of a stream that ends with a verdict, and of one that ends with
\* an error
VerdictStream(text, density, output, type) ==
  <<createStatusEvent(Str("Reviewing case file..."))>>
  \o VerdictEvents(ValidatedFor(output, density))
  \o <<ShareEvent(createDirectShareUrl(ServerPayload(text, density, output)), type),
       DoneEvent>>

ErrorStream ==
  <<createStatusEvent(Str("Reviewing case file...")),
    createErrorEvent(Str("Emoji court could not render a verdict. Try again."))>>

Responses(text, density) ==
  {[ok |-> FALSE, events |-> <<>>], [ok |-> TRUE, events |-> ErrorStream]}
  \cup {[ok |-> TRUE,
          events |-> VerdictStream(text, density, a.output, a.type)] :
          a \in Answers}

SharedPayloads ==
  {ServerPayload(PaddedText, 8, output) : output \in LinkedOutputs}

\* Lines 992-999: /[\p{L}\p{N}]/u
hasDescriptiveContent(value) ==
  /\ Trim(value) # <<>>
  /\ \E i \in 1..Len(value) : value[i] \in {"a", "1", "LATIN"}

\* Lines 1022-1035
resetStreamState(state) ==
  [state EXCEPT !.verdict = <<>>, !.sentence = <<>>, !.evidence = <<>>,
                !.verdictText = <<>>, !.sentenceText = <<>>,
                !.evidenceText = <<>>, !.statusMessage = <<>>,
                !.shareUrl = NoSearch, !.shareStatus = <<>>,
                !.shareType = "", !.ogImageUrl = NoSearch, !.ogError = <<>>]

\* The density after a change, with the effect of lines 909-914
WithDensity(state, density) ==
  IF density = state.density THEN state
  ELSE ReclampEffect([state EXCEPT !.density = density])

\* The page is opened with a share link of the server: the hydration effect
\* of lines 937-990 runs, and the limits effect after it.
OpenSharedLink ==
  /\ client = NoClient
  /\ \E payload \in SharedPayloads :
       LET search == createDirectShareUrl(payload)
           hydrated == Hydrated(client.state, search)
       IN client' = [client EXCEPT
                       !.search = search,
                       !.linked = payload,
                       !.shareHydrated = ~IsThrown(HydrationDecode(search)),
                       !.state = WithDensity(hydrated, hydrated.density)]
  /\ UNCHANGED <<now, limiterVars, inflight, pipelineVars, validation>>

\* The image of state.ogImageUrl is requested: the GET handler of the OG
\* route, og/route.tsx lines 54-67.
OgRoute ==
  /\ ~client.card.decoded
  /\ client.state.ogImageUrl # NoSearch
  /\ client' = [client EXCEPT
                  !.card = [decoded |-> TRUE,
                            payload |-> decodePayload(
                              URLSearchParamsGet(client.state.ogImageUrl))]]
  /\ UNCHANGED <<now, limiterVars, inflight, pipelineVars, validation>>

\* The textarea's onChange, lines 1377-1381
ChangeInput ==
  /\ ~client.state.isStreaming
  /\ \E text \in ClientTexts :
       /\ text # client.state.input
       /\ client' = [client EXCEPT
                       !.state = [@ EXCEPT !.input = SliceFromStart(text, MAX_CHAR_COUNT),
                                           !.error = <<>>]]
  /\ UNCHANGED <<now, limiterVars, inflight, pipelineVars, validation>>

\* The slider's onChange, line 1422, and the effect of lines 909-914
ChangeDensity ==
  /\ ~client.state.isStreaming
  /\ \E density \in ClientDensities :
       /\ density # client.state.density
       /\ client' = [client EXCEPT !.state = WithDensity(@, density)]
  /\ UNCHANGED <<now, limiterVars, inflight, pipelineVars, validation>>

\* handleSubmit, lines 1001-1020, with the fetch of streamVerdict, lines
\* 1037-1056.  A stream still being read is aborted, and its catch block sets
\* the status message after handleSubmit has.
Submit ==
  /\ ~client.state.isStreaming
  /\ client.submissions < MaxSubmissions
  /\ IF ~hasDescriptiveContent(client.state.input)
       THEN client' = [client EXCEPT !.state.error =
              Str("Add a bit of descriptive text beyond emojis to get a verdict.")]
       ELSE
         \E response \in Responses(client.state.input, client.state.density),
            newlineAtEnd \in BOOLEAN, shortlinkUp \in BOOLEAN :
           LET started ==
                 [resetStreamState(client.state) EXCEPT
                    !.error = <<>>, !.streamError = <<>>,
                    !.isStreaming = TRUE,
                    !.statusMessage =
                      IF client.pc = "reading"
                        THEN Str("Verdict request cancelled.")
                        ELSE Str("Summoning the emoji jury...")]
               unavailable ==
                 [started EXCEPT
                    !.streamError = Str("Emoji court is unavailable. Please try again soon."),
                    !.isStreaming = FALSE,
                    !.statusMessage = <<>>]
               usesShortlink ==
                 /\ response.ok
                 /\ \E i \in 1..Len(response.events) :
                      response.events[i].type = "long"
           IN /\ response.ok \/ newlineAtEnd
              /\ usesShortlink \/ shortlinkUp
              /\ client' =
                   [client EXCEPT
                      !.pc = IF response.ok THEN "reading" ELSE "failed",
                      !.render = RenderOf(client.state),
                      !.state = IF response.ok THEN started ELSE unavailable,
                      !.submissions = @ + 1,
                      !.events = response.events,
                      !.wire = ResponseText(Len(response.events), newlineAtEnd),
                      !.length = Len(ResponseText(Len(response.events), newlineAtEnd)),
                      !.buffer = <<>>,
                      !.processed = <<>>,
                      !.midLine = FALSE,
                      !.shortlinkUp = shortlinkUp,
                      !.shared = NoShared,
                      !.card = [decoded |-> FALSE, payload |-> NoPayload]]
  /\ UNCHANGED <<now, limiterVars, inflight, pipelineVars, validation>>

\* The lengths of the chunks tried: up to two lines and a character, and all
\* that is left of the response
ChunkLengths(wire) == 1..Min(Len(wire), 7) \cup {Len(wire)}

\* One turn of the loop of lines 1066-1083: reader.read() resolves with a
\* chunk of any length, and the lines the buffer then holds are processed.
ReadChunk ==
  /\ client.pc = "reading"
  /\ client.wire # <<>>
  /\ \E n \in ChunkLengths(client.wire) :
       client' =
         DrainBuffer([client EXCEPT
                        !.buffer = @ \o SubSeq(client.wire, 1, n),
                        !.wire = SubSeq(@, n + 1, Len(@)),
                        !.midLine = @ \/ client.wire[n].place = 1])
  /\ UNCHANGED <<now, limiterVars, inflight, pipelineVars, validation>>

\* reader.read() resolves with done: lines 1068-1070 and 1085-1089
ReadDone ==
  /\ client.pc = "reading"
  /\ client.wire = <<>>
  /\ LET line == TrimLine(client.buffer)
         last == IF Len(line) > 0 THEN processStreamLine(client, line)
                 ELSE client
     IN client' = [last EXCEPT !.pc = "finished",
                               !.buffer = <<>>,
                               !.state = finalizeStream(@)]
  /\ UNCHANGED <<now, limiterVars, inflight, pipelineVars, validation>>

NextClient ==
  \/ OpenSharedLink
  \/ OgRoute
  \/ ChangeInput
  \/ ChangeDensity
  \/ Submit
  \/ ReadChunk
  \/ ReadDone

SpecClient == InitLimiter /\ [][NextClient]_vars

\* ------------------------------------------------------------------------
\* Rate limiter properties
\* ------------------------------------------------------------------------
\* A call to applyRateLimit(identifier) is the step that adds to its history.
Called(identifier) == history'[identifier] # history[identifier]

\* C6: of the sequential applyRateLimit calls one identifier makes inside one
\* 24h window, the k-th is allowed with remaining = 30 - k for k = 1..30 and
\* the 31st is rejected with remaining = 0.
C6_ThirtyAllowedThenRejected ==
  lastCall.made =>
    /\ lastCall.k <= 30 =>
         /\ lastCall.result.allowed
         /\ lastCall.result.remaining = 30 - lastCall.k
    /\ lastCall.k = 31 =>
         /\ ~lastCall.result.allowed
         /\ lastCall.result.remaining = 0

C6_Witness ==
  /\ lastCall.made
  /\ lastCall.k = 31
  /\ ~lastCall.result.allowed
  /\ lastCall.result.remaining = 0
  /\ history[lastCall.id].allowed = 30

\* C7: every stored window has 1 <= count <= 30; a rejected call leaves the
\* window's count and resetAt as they were; an allowed call inside an existing
\* window adds exactly 1 to count and leaves resetAt as it was.
C7_CountRange ==
  \A i \in Identifiers :
    rateLimitStore[i].present =>
      /\ rateLimitStore[i].count >= 1
      /\ rateLimitStore[i].count <= RATE_LIMIT_MAX_REQUESTS

C7_CallStep ==
  \A i \in Identifiers :
    Called(i) =>
      LET old == rateLimitStore[i]
          new == rateLimitStore'[i]
      IN /\ ~lastCall'.result.allowed => new = old
         /\ (lastCall'.result.allowed /\ old.present /\ now < old.resetAt) =>
              /\ new.count = old.count + 1
              /\ new.resetAt = old.resetAt

C7_WindowCountBounded == [](C7_CountRange) /\ [][C7_CallStep]_vars

C7_Witness ==
  /\ lastCall.made
  /\ lastCall.result.allowed
  /\ lastCall.before.present
  /\ lastCall.at < lastCall.before.resetAt
  /\ lastCall.before.count = 29
  /\ rateLimitStore[lastCall.id].count = 30

\* C8: the window an identifier's call creates at time t0 has
\* resetAt = t0 + 24h, and a call with another identifier never changes this
\* identifier's count or resetAt.
C8_ResetAtFromCreation ==
  \A i \in Identifiers :
    rateLimitStore[i].present =>
      rateLimitStore[i].resetAt = history[i].first + RATE_LIMIT_WINDOW_MS

C8_OtherIdentifiersUntouched ==
  \A i \in Identifiers :
    Called(i) =>
      /\ history'[i].calls = 1 =>
           rateLimitStore'[i].resetAt = now + RATE_LIMIT_WINDOW_MS
      /\ \A other \in Identifiers \ {i} :
           rateLimitStore'[other] = rateLimitStore[other]

C8_WindowPerIdentifier ==
  [](C8_ResetAtFromCreation) /\ [][C8_OtherIdentifiersUntouched]_vars

C8_Witness ==
  /\ lastCall.made
  /\ lastCall.id = "Y"
  /\ rateLimitStore["X"].present
  /\ rateLimitStore["X"].count = 2
  /\ rateLimitStore["X"].resetAt = RATE_LIMIT_WINDOW_MS
  /\ rateLimitStore["Y"].resetAt = 2 * RATE_LIMIT_WINDOW_MS - 1

\* C9: a call made at now >= resetAt is allowed whatever the old count was and
\* replaces the window by count = 1, resetAt = now + 24h; a call made before
\* resetAt never resets the window.
C9_CallStep ==
  \A i \in Identifiers :
    (Called(i) /\ rateLimitStore[i].present) =>
      LET old == rateLimitStore[i]
          new == rateLimitStore'[i]
      IN /\ now >= old.resetAt =>
              /\ lastCall'.result.allowed
              /\ new = RateLimitEntry(1, now + RATE_LIMIT_WINDOW_MS)
         /\ now < old.resetAt =>
              /\ new.resetAt = old.resetAt
              /\ new.count >= old.count

C9_ExpiredWindowIsNew == [][C9_CallStep]_vars

C9_Witness ==
  /\ lastCall.made
  /\ lastCall.before.present
  /\ lastCall.before.count = RATE_LIMIT_MAX_REQUESTS
  /\ lastCall.at = lastCall.before.resetAt
  /\ lastCall.result.allowed
  /\ rateLimitStore[lastCall.id].count = 1

\* C10: under every interleaving of concurrent requests of one identifier the
\* check-and-increment is atomic: the window's count is the number of requests
\* allowed in that window (no update is lost) and at most 30 are allowed.
C10_NoLostUpdate ==
  \A i \in Identifiers :
    /\ rateLimitStore[i].present => rateLimitStore[i].count = history[i].allowed
    /\ history[i].allowed <= RATE_LIMIT_MAX_REQUESTS

C10_Witness ==
  /\ \A r \in Slots : inflight[r].id = "X"
  /\ inflight[1].pc = "streaming"
  /\ inflight[2].pc = "rejected429"
  /\ rateLimitStore["X"].count = RATE_LIMIT_MAX_REQUESTS
  /\ history["X"].allowed = RATE_LIMIT_MAX_REQUESTS

\* ------------------------------------------------------------------------
\* Stream properties
\* ------------------------------------------------------------------------
IsTerminal(event) == event.field \in {"error", "done"}

TerminalPositions(events) == {i \in 1..Len(events) : IsTerminal(events[i])}

FieldsOf(events) == [i \in 1..Len(events) |-> events[i].field]

Repeat(n, field) == [i \in 1..n |-> field]

\* The moderation reply stands for the decision allow.
DecidedAllow(reply) ==
  \/ reply.kind \in {"notext", "unparsable"}
  \/ reply.kind = "parsed" /\ reply.action \in {"allow", "absent"}

DecidedBlock(reply) == reply.kind = "parsed" /\ reply.action = "block"

IsCleanEmoji(value) ==
  /\ value.t = "string"
  /\ value.s # <<>>
  /\ \A i \in 1..Len(value.s) : value.s[i] \in EmojiClass \ SanitizerClass

IsPlainText(value) == value.t = "string" /\ Trim(value.s) # <<>>

\* A completion that is an object with every field as the prompt asks and as
\* many evidence_text entries as evidence entries.
IsWellFormed(reply) ==
  /\ reply.kind = "ok"
  /\ reply.content = "json"
  /\ reply.value.t = "object"
  /\ IsCleanEmoji(reply.value.verdict)
  /\ IsCleanEmoji(reply.value.sentence)
  /\ IsPlainText(reply.value.verdict_text)
  /\ IsPlainText(reply.value.sentence_text)
  /\ IsPlainText(reply.value.status_advice)
  /\ reply.value.evidence.t = "array"
  /\ reply.value.evidence_text.t = "array"
  /\ Len(reply.value.evidence_text.items) = Len(reply.value.evidence.items)
  /\ \A i \in 1..Len(reply.value.evidence.items) :
       /\ IsCleanEmoji(reply.value.evidence.items[i])
       /\ IsPlainText(reply.value.evidence_text.items[i])

\* C1: in every stream no event follows an error event or a done event: such an
\* event, when present, is the last one, on every path.
C1_TerminalEventIsLast ==
  \A i \in TerminalPositions(post.events) : i = Len(post.events)

C1_Witness ==
  /\ post.pc = "closed"
  /\ post.languageFailed
  /\ Len(post.events) = 3
  /\ post.events[3] = createErrorEvent(Str("Model evidence_text length mismatch."))

\* C2: when every external call eventually returns or fails, every stream that
\* POST opens and the reader keeps reading ends: start() finishes, the stream
\* then holds exactly one terminal event (error or done, not both, not none),
\* as its last event, and is closed.
C2_ClosedWithOneTerminal ==
  post.pc = "closed" =>
    /\ Cardinality(TerminalPositions(post.events)) = 1
    /\ IsTerminal(post.events[Len(post.events)])

C2_ReadStreamIsClosed ==
  (post.pc \in EndedPcs /\ ~post.cancelled) => post.pc = "closed"

C2_StreamTerminates ==
  /\ [](C2_ClosedWithOneTerminal)
  /\ [](C2_ReadStreamIsClosed)
  /\ (post.pc \in StreamingPcs) ~> (post.pc \in EndedPcs)

C2_Witness ==
  /\ post.pc = "closed"
  /\ ~post.cancelled
  /\ post.wasTranslated
  /\ post.generation.kind = "http"
  /\ Len(post.calls) = 5
  /\ post.events[Len(post.events)].field = "error"

\* The request ran without a fault outside the claim's case: moderation
\* decided allow, nothing was translated, the completion is well-formed, the
\* share link was built and the reader read the stream to its end.
HappyPath ==
  /\ post.pc \in EndedPcs
  /\ ~post.cancelled
  /\ DecidedAllow(post.moderation)
  /\ ~post.languageFailed
  /\ ~post.wasTranslated
  /\ IsWellFormed(post.generation)
  /\ ~post.shareThrew

\* status, verdict, verdict_text, sentence, sentence_text, n evidence,
\* n evidence_text, the status with the advice, share, done, nothing else
HappyPathEvents ==
  LET n == Len(post.generation.value.evidence.items)
      rest == SubSeq(post.events, 2, Len(post.events))
  IN /\ post.pc = "closed"
     /\ post.events[1] = createStatusEvent(Str("Reviewing case file..."))
     /\ FieldsOf(rest) =
          <<"status", "verdict", "verdict_text", "sentence", "sentence_text">>
            \o Repeat(n, "evidence") \o Repeat(n, "evidence_text")
            \o <<"status", "share", "done">>
     /\ rest[5 + 2 * n + 1].content =
          SliceFromStart(Trim(post.generation.value.status_advice.s), 80)

C4_BlockYieldsStatusThenError ==
  (DecidedBlock(post.moderation) /\ post.moderation.reason.t = "string"
     /\ ~post.cancelled)
  =>
    /\ post.pc = "closed"
    /\ post.events = <<createStatusEvent(Str("Reviewing case file...")),
                       createErrorEvent(post.moderation.reason.s)>>

C4_Witness ==
  /\ DecidedBlock(post.moderation)
  /\ post.moderation.reason = JString(Str("R"))
  /\ post.pc = "closed"
  /\ Len(post.events) = 2
  /\ post.events[2].message = Str("R")

\* C5: after a block decision no further external call (language detection,
\* translation, generation) is issued for the request.
C5_BlockIssuesNoFurtherCall ==
  DecidedBlock(post.moderation) =>
    /\ post.pc \in EndedPcs
    /\ post.calls = <<Call("moderation", post.text, FALSE)>>

C5_Witness ==
  /\ DecidedBlock(post.moderation)
  /\ post.moderation.reason.t # "string"
  /\ post.pc = "closed"
  /\ Len(post.calls) = 1

\* ------------------------------------------------------------------------
\* Pipeline properties
\* ------------------------------------------------------------------------
\* The count the gate of the current request left: one more than the count it
\* found in a live window, 1 when it found none.
CountAfterGate ==
  IF lastCall.before.present /\ lastCall.at < lastCall.before.resetAt
    THEN lastCall.before.count + 1 ELSE 1

\* C11: a request changes its identifier's rate-limit count at most once: the
\* count rises by one (or a new window starts at 1) in the step that opens the
\* stream, and no later stage, block, upstream failure or client disconnect
\* changes any entry of the store.
C11_OnlyGateCounts ==
  \A i \in Identifiers :
    rateLimitStore'[i] # rateLimitStore[i] =>
      /\ i = post.id
      /\ post.pc = "awaitBody"
      /\ post'.status = 200
      /\ rateLimitStore'[i].count =
           IF rateLimitStore[i].present /\ now < rateLimitStore[i].resetAt
             THEN rateLimitStore[i].count + 1 ELSE 1

C11_StreamKeepsCount ==
  post.pc \in StreamingPcs \cup EndedPcs =>
    /\ lastCall.made
    /\ lastCall.id = post.id
    /\ rateLimitStore[post.id].count = CountAfterGate

C11_CountedOncePerRequest ==
  [](C11_StreamKeepsCount) /\ [][C11_OnlyGateCounts]_vars

C11_Witness ==
  /\ post.pc = "aborted"
  /\ post.cancelled
  /\ Len(post.calls) = 4
  /\ lastCall.before.count = RATE_LIMIT_MAX_REQUESTS - 1
  /\ rateLimitStore[post.id].count = RATE_LIMIT_MAX_REQUESTS

\* The request as C12 describes an invalid one: the body is missing or is not
\* a JSON object, text is missing, empty, whitespace only or longer than 500
\* characters, or density is not numeric (neither a number nor a string that
\* reads as one).
NonNumeric(density) == density.t \notin {"number", "numeric string"}

IsInvalidRequest(body) ==
  \/ body.json # "object"
  \/ body.text.t # "string"
  \/ body.text.s = <<>>
  \/ Trim(body.text.s) = <<>>
  \/ Len(body.text.s) > MAX_CHAR_COUNT
  \/ NonNumeric(body.density)

Answered == post.pc \notin {"idle", "awaitBody"}

\* C12: a request with a missing or invalid JSON body, a missing, empty,
\* whitespace-only or over-500-character text, or a non-numeric density is
\* answered 400 with an error field; no stream is opened and no external call
\* is issued for it.
C12_InvalidRequestGets400 ==
  (Answered /\ IsInvalidRequest(post.body)) =>
    /\ post.pc = "rejected400"
    /\ post.status = 400
    /\ post.error # <<>>
    /\ post.events = <<>>
    /\ post.calls = <<>>

\* The rate limiter rejected the request: its body passed the checks of lines
\* 523-547 and applyRateLimit returned allowed = false.
RateLimited ==
  /\ Answered
  /\ InvalidReason(post.body) = <<>>
  /\ lastCall.made
  /\ ~lastCall.result.allowed

\* C13: a request the rate limiter rejects is answered 429 with error,
\* retryAfterSeconds >= 1 and remaining = 0 and with a Retry-After header
\* equal to retryAfterSeconds; no stream is opened and no moderation, language
\* or generation call is issued.
C13_RateLimitedGets429 ==
  RateLimited =>
    /\ post.pc = "rejected429"
    /\ post.status = 429
    /\ post.error # <<>>
    /\ post.retryAfterSeconds >= 1
    /\ post.remaining = 0
    /\ post.retryAfterHeader = post.retryAfterSeconds
    /\ post.events = <<>>
    /\ post.calls = <<>>

C13_Witness ==
  /\ RateLimited
  /\ post.status = 429
  /\ post.retryAfterHeader = 1
  /\ served = 2
  /\ rateLimitStore[post.id].count = RATE_LIMIT_MAX_REQUESTS

\* fetch rejected, or the moderation response was not ok
ModerationFailed(reply) == reply.kind \in {"network", "http"}

VerdictFields ==
  {"verdict", "verdict_text", "sentence", "sentence_text", "evidence",
   "evidence_text"}

HasEvent(fields) == \E i \in 1..Len(post.events) : post.events[i].field \in fields

\* C14: a transport or HTTP failure of the moderation call is fatal: the
\* stream (read to its end) is the first status followed by an error event, no
\* language or generation call is issued, and no verdict field, share or done
\* event is emitted.
C14_ModerationFailureIsFatal ==
  ModerationFailed(post.moderation) =>
    /\ post.pc \in EndedPcs
    /\ post.calls = <<Call("moderation", post.text, FALSE)>>
    /\ ~HasEvent(VerdictFields \cup {"share", "done"})
    /\ ~post.cancelled =>
         /\ post.pc = "closed"
         /\ Len(post.events) = 2
         /\ post.events[1].field = "status"
         /\ post.events[2].field = "error"

C14_Witness ==
  /\ post.moderation.kind = "http"
  /\ post.pc = "closed"
  /\ post.calls = <<Call("moderation", post.text, FALSE)>>
  /\ post.events[2] =
       createErrorEvent(<<"Moderation request failed: ", "upstream body 1">>)

\* The moderation response was ok but gave no decision: its body is not JSON,
\* it carries no output text, or the output text is not JSON.
ModerationUnparsed(reply) == reply.kind \in {"badjson", "notext", "unparsable"}

\* C15: when the moderation call succeeds at the HTTP level but its response
\* is absent or cannot be parsed, the decision is allow and the pipeline goes
\* on with the original text: language detection is called with it.
C15_UnparsedModerationAllows ==
  ModerationUnparsed(post.moderation) =>
    /\ post.moderatedText = post.text
    /\ Len(post.calls) >= 2
    /\ post.calls[2] = Call("detect", post.text, FALSE)

\* Moderation returned rewrite together with a replacement text, under the
\* member name the code reads or under the one the prompt asks for.
HasReplacement(reply) ==
  /\ reply.kind = "parsed"
  /\ reply.action = "rewrite"
  /\ \/ reply.safeText.t = "string" /\ reply.safeText.s # <<>>
     \/ reply.safe_text.t = "string" /\ reply.safe_text.s # <<>>

Replacement(reply) ==
  IF reply.safeText.t = "string" /\ reply.safeText.s # <<>>
    THEN reply.safeText.s ELSE reply.safe_text.s

ShareEvents == {i \in 1..Len(post.events) : post.events[i].field = "share"}

\* C16: when moderation returns rewrite together with a replacement text,
\* every later stage uses the replacement: it is the text given to language
\* detection and translation, the text given to generation (translated when a
\* translation was made), and the text of the share payload, which is never
\* the text as it was before moderation.
C16_ReplacementUsedDownstream ==
  HasReplacement(post.moderation) =>
    LET replacement == Replacement(post.moderation) IN
    /\ \A i \in 2..Len(post.calls) :
         /\ post.calls[i].api \in {"detect", "translate"} =>
              post.calls[i].text = replacement
         /\ (post.calls[i].api = "chat" /\ ~post.wasTranslated) =>
              post.calls[i].text = replacement
    /\ \A i \in ShareEvents :
         /\ post.events[i].url.text = Trim(replacement)
         /\ post.events[i].url.text # Trim(post.text)

\* Detection or translation failed: the call threw (transport failure or HTTP
\* error) or its response carried nothing that could be parsed.
DetectionFailed == post.detection.kind \in {"thrown", "notext"}

TranslationFailed == post.translation.kind \in {"thrown", "notext"}

\* The text given to the chat completion call of the request, <<>> if none.
ChatCalls == {i \in 1..Len(post.calls) : post.calls[i].api = "chat"}

\* After a language failure, on a stream the reader still reads, generation is
\* called with the moderated text as it was and no error event precedes it.
RecoveredLocally ==
  /\ ChatCalls # {}
  /\ \A i \in ChatCalls : post.calls[i].text = post.moderatedText
  /\ post.translatedText = post.moderatedText
  /\ ~post.wasTranslated
  /\ HasEvent({"error"}) => post.pc = "closed" /\ post.generation.kind # "none"

\* C17 as stated: no failure of language detection or translation (transport
\* failure, HTTP error, unparsable response) ends the request: generation is
\* still called, with the moderated text unchanged and the language code "en",
\* and the language stage produces no error event.
C17_LanguageFailureFallsBackToEn ==
  ((DetectionFailed \/ TranslationFailed) /\ ~post.cancelled) =>
    /\ RecoveredLocally
    /\ post.detectedLanguage = "en"

\* C17 amended: the same, the language code being "en" unless translation
\* returned without a parsable text, where the detected code is kept.
C17_LanguageFailureNeverFatal ==
  ((DetectionFailed \/ TranslationFailed) /\ ~post.cancelled) =>
    /\ RecoveredLocally
    /\ post.translation.kind # "notext" => post.detectedLanguage = "en"
    /\ post.translation.kind = "notext" =>
         post.detectedLanguage = post.detection.language

C17_Witness ==
  /\ post.translation.kind = "thrown"
  /\ ~post.cancelled
  /\ post.pc = "closed"
  /\ post.detectedLanguage = "en"
  /\ Len(post.calls) = 4
  /\ post.calls[4] = Call("chat", post.moderatedText, config.temperature)
  /\ post.events[Len(post.events)].field = "done"

\* fetchVerdict returned null: the completion is absent or is not JSON (or is
\* JSON for null).
GeneratorReturnedNull ==
  /\ post.generation.kind = "ok"
  /\ \/ post.generation.content \in {"absent", "unparsable"}
     \/ post.generation.value.t = "null"

\* C18: when the generator returns null, the stream ends with an error event
\* carrying the generic retry message (not a message of the validator, which
\* is not run), and no verdict, sentence, evidence or share event is emitted.
C18_NullVerdictEndsWithRetryMessage ==
  GeneratorReturnedNull =>
    /\ post.pc \in EndedPcs
    /\ ~HasEvent(VerdictFields \cup {"share", "done"})
    /\ ~post.cancelled =>
         /\ post.pc = "closed"
         /\ post.events[Len(post.events)] =
              createErrorEvent(Str("Emoji court could not render a verdict. Try again."))

C18_Witness ==
  /\ post.generation.kind = "ok"
  /\ post.generation.content = "unparsable"
  /\ post.pc = "closed"
  /\ post.wasTranslated
  /\ post.events[Len(post.events)].message =
       Str("Emoji court could not render a verdict. Try again.")

\* Number of glyphs, counted as Array.from counts them.
GlyphCount(value) == Len(value)

\* Only emoji glyphs and whitespace.
OnlyEmojiAndSpace(value) ==
  \A i \in 1..Len(value) : value[i] \in EmojiClass \cup WhitespaceClass

GeneratorReturnedObject ==
  /\ post.generation.kind = "ok"
  /\ post.generation.content = "json"
  /\ post.generation.value.t = "object"

\* The entries the two loops of lines 433-459 keep.
KeptOf(result) ==
  [evidence |-> KeptEvidence(IF result.evidence.t = "array"
                               THEN result.evidence.items ELSE <<>>, <<>>),
   evidenceText |-> KeptEvidenceText(IF result.evidence_text.t = "array"
                                       THEN result.evidence_text.items ELSE <<>>)]

KeptCountsDiffer(result) ==
  Len(KeptOf(result).evidence) # Len(KeptOf(result).evidenceText)

\* The checks of lines 415-453, which come before the comparison of the
\* counts, let the output through.
PassesEarlierChecks(result) ==
  /\ EmojiField(result.verdict) # <<>> /\ isEmojiOnly(EmojiField(result.verdict))
  /\ TextField(result.verdict_text, 160) # <<>>
  /\ EmojiField(result.sentence) # <<>> /\ isEmojiOnly(EmojiField(result.sentence))
  /\ TextField(result.sentence_text, 160) # <<>>
  /\ Len(KeptOf(result).evidence) > 0

PositionsOf(fields) == {i \in 1..Len(post.events) : post.events[i].field \in fields}

\* C21: a failure while the share payload or the share URL is built is not
\* fatal: the stream carries no error event, the failure is reported by a
\* warning status event that comes after every verdict field event, and the
\* stream ends with done.
C21_ShareFailureIsNotFatal ==
  post.shareThrew =>
    LET n == Len(post.events) IN
    /\ post.pc = "closed"
    /\ ~HasEvent({"error", "share"})
    /\ post.events[n] = DoneEvent
    /\ post.events[n - 1] = createStatusEvent(<<"Share payload warning: ", "share failure">>)
    /\ \A f \in VerdictFields : PositionsOf({f}) # {}
    /\ \A i \in PositionsOf(VerdictFields) : i < n - 1

C21_Witness ==
  /\ post.shareThrew
  /\ post.pc = "closed"
  /\ Cardinality(PositionsOf({"evidence"})) = 6
  /\ post.wasTranslated

\* The text of an upstream response occurs in the message.
Embeds(message, body) ==
  \E i \in 1..Len(message) : \E j \in 1..Len(body) : message[i] = body[j]

\* C22: the message of an error event never contains the body of an upstream
\* response, so that runs which differ only in the text of the upstream
\* failure response (moderation or generation) emit the same message.
C22_ErrorMessageOmitsUpstreamBody ==
  \A i \in PositionsOf({"error"}) : \A body \in UpstreamBodies :
    ~Embeds(post.events[i].message, body)

\* The verdict validateModelOutput returned for the completion of this request.
ValidatedOfStream ==
  validateModelOutput(post.generation.value, computeEmojiLimits(post.density)).value

\* The events of one field, in the order of their emission.
EventsOf(field) == SelectSeq(post.events, LAMBDA e : e.field = field)

\* The events of an indexed field carry the entries of values, one per index
\* from 0 upwards.
OncePerIndex(field, values) ==
  /\ Len(EventsOf(field)) = Len(values)
  /\ \A k \in 1..Len(values) :
       EventsOf(field)[k] = Event(field, values[k], <<>>, k - 1, TRUE, NoUrl, "")

\* The events of a field without index: none, or one carrying value.
AtMostOnce(field, value) ==
  \/ EventsOf(field) = <<>>
  \/ EventsOf(field) = <<Event(field, value, <<>>, -1, TRUE, NoUrl, "")>>

\* C26: every verdict, verdict_text, sentence, sentence_text, evidence and
\* evidence_text event carries replace: true and the whole validated value;
\* verdict, verdict_text, sentence and sentence_text are emitted at most once
\* in a stream, evidence and evidence_text once per index 0..n-1 in ascending
\* order, and every evidence event comes before every evidence_text event.
C26_FieldEventsAreWholeValues ==
  HasEvent(VerdictFields) =>
    /\ AtMostOnce("verdict", ValidatedOfStream.verdict)
    /\ AtMostOnce("verdict_text", ValidatedOfStream.verdictText)
    /\ AtMostOnce("sentence", ValidatedOfStream.sentence)
    /\ AtMostOnce("sentence_text", ValidatedOfStream.sentenceText)
    /\ OncePerIndex("evidence", ValidatedOfStream.evidence)
    /\ OncePerIndex("evidence_text", ValidatedOfStream.evidenceText)
    /\ \A i \in PositionsOf({"evidence"}) : \A j \in PositionsOf({"evidence_text"}) :
         i < j

C26_Witness ==
  /\ post.pc = "closed"
  /\ Len(EventsOf("evidence")) = 6
  /\ Len(EventsOf("evidence_text")) = 6
  /\ EventsOf("evidence")[6].index = 5
  /\ Len(EventsOf("verdict")) = 1
  /\ post.density = 10

\* The stream ended with the done event.
EndsWithDone ==
  /\ post.pc = "closed"
  /\ post.events[Len(post.events)].field = "done"

\* The status event of line 678.
AdviceStatus ==
  Event("status", ValidatedOfStream.statusAdvice, <<>>, -1, FALSE, NoUrl, "")

LastOf(events) == events[Len(events)]

\* C27 as stated: in every stream that ends with done, the last status event
\* is the one that carries the status advice of the validated verdict.
C27_LastStatusIsAdvice ==
  EndsWithDone => LastOf(EventsOf("status")) = AdviceStatus

\* C27: in every stream that ends with done, the status event that carries
\* the status advice of the validated verdict is the last status event when
\* the share link was built, and is followed by the share warning status
\* alone when building the share link failed.
C27_AdviceIsLastStatusBeforeShare ==
  EndsWithDone =>
    LET statuses == EventsOf("status") IN
    IF post.shareThrew
      THEN /\ Len(statuses) >= 2
           /\ statuses[Len(statuses) - 1] = AdviceStatus
           /\ LastOf(statuses).content[1] = "Share payload warning: "
      ELSE LastOf(statuses) = AdviceStatus

C27_Witness ==
  /\ EndsWithDone
  /\ ~post.shareThrew
  /\ post.generation.value.status_advice.t = "string"
  /\ LastOf(EventsOf("status")).content = <<"a", "a">>
  /\ Len(EventsOf("status")) = 3

\* clamp(v, lo, hi) as the specification writes it.
Clamped(v, lo, hi) == IF v < lo THEN lo ELSE IF v > hi THEN hi ELSE v

\* C28: for every density in [0,10], computeEmojiLimits returns evidenceMax =
\* clamp(3 + density, 3, 16), sentenceMax = clamp(4 + 2 * density, 4, 24), and
\* verdictMax = 2 exactly when density > 5 and 1 otherwise, never above 3; at
\* density 5 the limits are verdictMax 1, sentenceMax 14, evidenceMax 8.
C28_LimitsFollowDensity ==
  validation.called =>
    LET d == validation.density
        limits == validation.limits
    IN /\ d \in 0..10
       /\ limits.evidenceEmojiMax = Clamped(3 + d, 3, 16)
       /\ limits.sentenceMax = Clamped(4 + 2 * d, 4, 24)
       /\ limits.verdictMax = 2 <=> d > 5
       /\ limits.verdictMax = 1 <=> d <= 5
       /\ limits.verdictMax <= 3
       /\ d = 5 => limits = [verdictMax |-> 1, sentenceMax |-> 14,
                              evidenceEmojiMax |-> 8]

C28_Witness ==
  /\ validation.called
  /\ validation.density = 5
  /\ validation.limits.sentenceMax = 14
  /\ validation.limits.evidenceEmojiMax = 8
  /\ validation.limits.verdictMax = 1

\* The latest call of the request.
LatestCall == post.calls[Len(post.calls)]

\* The step in which a chat completion call settles; post.generation' is the
\* response.
ChatCallSettles ==
  /\ post.pc \in {"generating", "retrying"}
  /\ post'.pc # post.pc

\* The first chat completion call failed because the model does not support
\* the temperature parameter that the call carried.
TemperatureRejected ==
  /\ post.pc = "generating"
  /\ LatestCall.temperature
  /\ post'.generation.kind = "http"
  /\ post'.generation.temperature

\* The call failed: no response, a response that is not ok, or a body that is
\* not JSON.
ChatCallFailed == post'.generation.kind \in {"network", "http", "badjson"}

C29_CallStep ==
  /\ ChatCallSettles =>
       /\ Len(post'.calls) > Len(post.calls) <=> TemperatureRejected
       /\ TemperatureRejected =>
            /\ post'.calls = Append(post.calls, [LatestCall EXCEPT !.temperature = FALSE])
            /\ post'.pc = "retrying"
       /\ (ChatCallFailed /\ ~TemperatureRejected) =>
            /\ post'.pc \in EndedPcs
            /\ ~post.cancelled =>
                 /\ post'.pc = "closed"
                 /\ LastOf(post'.events).field = "error"
  /\ (post.pc \in {"generating", "retrying"} /\ ~ChatCallSettles) =>
       post'.calls = post.calls

\* C29: the generation backend is called at most twice per request; the
\* second call is made exactly when the first call failed because the model
\* does not support the temperature parameter, it carries no temperature and
\* is otherwise the first call; a failure of the second call, for that reason
\* too, and any other failure of the first call end the stream with an error
\* event.
C29_SingleTemperatureRetry ==
  /\ [](Cardinality(ChatCalls) <= 2)
  /\ [][C29_CallStep]_vars

C29_Witness ==
  /\ Cardinality(ChatCalls) = 2
  /\ post.calls[Len(post.calls) - 1] = [LatestCall EXCEPT !.temperature = TRUE]
  /\ post.generation.kind = "http"
  /\ post.generation.temperature
  /\ post.pc = "closed"
  /\ LastOf(post.events).field = "error"

\* The emoji field is missing, empty after sanitizing, or not emoji-only.
ViolatesEmojiRule(raw) ==
  \/ raw.t # "string"
  \/ sanitizeEmoji(Trim(raw.s)) = <<>>
  \/ ~OnlyEmojiAndSpace(sanitizeEmoji(Trim(raw.s)))

\* The plain-language text is missing or empty.
ViolatesTextRule(raw) == ~IsPlainText(raw)

NotAnObject(result) == result.t \notin {"object", "array"}

\* The message of the first rule a model output violates, going through the
\* rules in the order the statement gives: the object, the emoji fields
\* (verdict, then sentence), the texts (verdict_text, sentence_text), the
\* evidence, the counts.  "" when no rule is violated.
C30_FirstViolationAsStated(result) ==
  IF NotAnObject(result) THEN "Model returned empty response."
  ELSE IF ViolatesEmojiRule(result.verdict)
    THEN "Model verdict missing or not emoji-only."
  ELSE IF ViolatesEmojiRule(result.sentence)
    THEN "Model sentence missing or not emoji-only."
  ELSE IF ViolatesTextRule(result.verdict_text)
    THEN "Model verdict_text missing or empty."
  ELSE IF ViolatesTextRule(result.sentence_text)
    THEN "Model sentence_text missing or empty."
  ELSE LET kept == KeptOf(result) IN
       IF Len(kept.evidence) = 0 THEN "Model evidence missing or invalid."
       ELSE IF Len(kept.evidence) # Len(kept.evidenceText)
         THEN "Model evidence_text length mismatch."
       ELSE ""

\* The same going through the rules in the order: the object, verdict,
\* verdict_text, sentence, sentence_text, the evidence, the counts.
FirstViolationFieldByField(result) ==
  IF NotAnObject(result) THEN "Model returned empty response."
  ELSE IF ViolatesEmojiRule(result.verdict)
    THEN "Model verdict missing or not emoji-only."
  ELSE IF ViolatesTextRule(result.verdict_text)
    THEN "Model verdict_text missing or empty."
  ELSE IF ViolatesEmojiRule(result.sentence)
    THEN "Model sentence missing or not emoji-only."
  ELSE IF ViolatesTextRule(result.sentence_text)
    THEN "Model sentence_text missing or empty."
  ELSE LET kept == KeptOf(result) IN
       IF Len(kept.evidence) = 0 THEN "Model evidence missing or invalid."
       ELSE IF Len(kept.evidence) # Len(kept.evidenceText)
         THEN "Model evidence_text length mismatch."
       ELSE ""

\* C30 as stated: of the rules a model output violates, validateModelOutput
\* reports the first in the order (1) not a non-null object, (2) an emoji field
\* (verdict, then sentence) not emoji-only after sanitizing, (3) a missing or
\* empty text (verdict_text, sentence_text), (4) no evidence entry left, then
\* the count mismatch, and the error event carries that message.
C30_ReportsFirstEmojiThenText ==
  validation.called =>
    LET message == C30_FirstViolationAsStated(validation.result) IN
    message # "" =>
      /\ ~validation.outcome.ok
      /\ validation.outcome.error = Str(message)
      /\ validation.event = createErrorEvent(Str(message))

\* C30: of the rules a model output violates, validateModelOutput reports the
\* first in the order (1) not a non-null object, (2) verdict not emoji-only
\* after sanitizing, (3) verdict_text missing or empty, (4) sentence not
\* emoji-only after sanitizing, (5) sentence_text missing or empty, (6) no
\* evidence entry left, then the count mismatch, and the error event carries
\* that message.
C30_ReportsFirstFieldByField ==
  validation.called =>
    LET message == FirstViolationFieldByField(validation.result) IN
    message # "" =>
      /\ ~validation.outcome.ok
      /\ validation.outcome.error = Str(message)
      /\ validation.event = createErrorEvent(Str(message))

C30_Witness ==
  /\ validation.called
  /\ ~ViolatesEmojiRule(validation.result.verdict)
  /\ ViolatesTextRule(validation.result.verdict_text)
  /\ ViolatesEmojiRule(validation.result.sentence)
  /\ ViolatesTextRule(validation.result.sentence_text)
  /\ KeptCountsDiffer(validation.result)
  /\ validation.event = createErrorEvent(Str("Model verdict_text missing or empty."))

\* ------------------------------------------------------------------------
\* Page properties
\* ------------------------------------------------------------------------
\* The verdict, sentence, evidence, their texts, the density and the text of
\* two payloads are the same.
SameVerdict(decoded, payload) ==
  /\ ~IsThrown(decoded)
  /\ decoded.verdict = payload.verdict
  /\ decoded.verdict_text = payload.verdict_text
  /\ decoded.sentence = payload.sentence
  /\ decoded.sentence_text = payload.sentence_text
  /\ decoded.evidence = payload.evidence
  /\ decoded.evidence_text = payload.evidence_text
  /\ decoded.d = payload.d
  /\ decoded.text = payload.text

\* C23: decoding a share URL made by createDirectShareUrl, with the hydration
\* of the page or with decodePayload of the OG route, yields the verdict,
\* sentence, evidence, their texts, the density and the text that were
\* encoded, also for payloads that contain emoji.
C23_ShareUrlRoundTrip ==
  client.search # NoSearch =>
    /\ SameVerdict(HydrationDecode(client.search), client.linked)
    /\ (client.card.decoded /\ client.submissions = 0) =>
         SameVerdict(client.card.payload, client.linked)

\* The events of a field in the response being read
StreamEvents(field) ==
  SelectSeq(client.events, LAMBDA e : e.field = field)

\* The value the events of a field deliver: the content of the last one, and
\* for an indexed field the contents in the order of the index
Delivered(field) ==
  LET of == StreamEvents(field) IN
  IF of = <<>> THEN <<>> ELSE of[Len(of)].content

DeliveredList(field) ==
  [i \in 1..Len(StreamEvents(field)) |-> StreamEvents(field)[i].content]

\* C24: the payload the page sends to the shortlink endpoint and encodes into
\* the OG image URL when it handles a share event holds the verdict, sentence,
\* evidence and text values the field events of the same stream delivered.
C24_SharePayloadIsOfThisStream ==
  client.shared.handled =>
    LET payload == client.shared.payload IN
    /\ payload.verdict = Delivered("verdict")
    /\ payload.sentence = Delivered("sentence")
    /\ payload.evidence = DeliveredList("evidence")
    /\ payload.verdict_text = Delivered("verdict_text")
    /\ payload.sentence_text = Delivered("sentence_text")
    /\ payload.evidence_text = DeliveredList("evidence_text")
    /\ ~IsThrown(client.shared.og)

\* The event lines whose newline has been delivered
LinesDelivered == (client.length - Len(client.wire)) \div 3

\* C25: however the response is split into chunks, also with a line split
\* across chunks and a last line without a newline, the loop of streamVerdict
\* passes each event line to processStreamLine once and in the order of
\* emission: while it reads, the lines delivered so far, and all of them when
\* it has finished.
C25_EachLineOnceInOrder ==
  /\ client.pc = "reading" =>
       client.processed = [k \in 1..LinesDelivered |-> EventText(k)]
  /\ client.pc = "finished" =>
       client.processed = [k \in 1..Len(client.events) |-> EventText(k)]

\* A stream read to its end whose last line had no newline, one of whose
\* chunks ended inside a line, and all of whose lines were processed.
C25_Witness ==
  /\ client.pc = "finished"
  /\ client.midLine
  /\ client.length = 3 * Len(client.events) - 1
  /\ Len(client.events) >= 11
  /\ Len(client.processed) = Len(client.events)
  /\ client.state.verdict = <<"GRIN">>

\* ------------------------------------------------------------------------
\* Validator properties: evidence, glyphs, sanitizing
\* ------------------------------------------------------------------------
\* The evidence array of a model output
EvidenceItems(result) ==
  IF result.evidence.t = "array" THEN result.evidence.items ELSE <<>>

\* An entry is a string that is non-empty after trimming and sanitizing, and
\* emoji-only.
Conforms(entry) ==
  /\ entry.t = "string"
  /\ sanitizeEmoji(Trim(entry.s)) # <<>>
  /\ isEmojiOnly(sanitizeEmoji(Trim(entry.s)))

\* The indices of the first six conforming entries
FirstSixConforming(items) ==
  LET conforming == {i \in 1..Len(items) : Conforms(items[i])} IN
  {i \in conforming : Cardinality({j \in conforming : j < i}) < 6}

\* The k-th smallest element of a set of indices
Nth(indices, k) ==
  CHOOSE i \in indices : Cardinality({j \in indices : j < i}) = k - 1

\* C31: the evidence list validateModelOutput keeps is the first (at most 6)
\* entries of the input that are strings, non-empty after sanitizing and
\* emoji-only, in their order; an entry that is not is skipped without an
\* error, whereas such a verdict or sentence fails validation; and validation
\* fails for missing evidence exactly when no entry remains.
C31_KeptEvidenceIsFirstSixConforming ==
  (validation.called /\ ~NotAnObject(validation.result)) =>
    LET result == validation.result
        outcome == validation.outcome
        items == EvidenceItems(result)
        first == FirstSixConforming(items)
        fieldsPass ==
          /\ Conforms(result.verdict) /\ Conforms(result.sentence)
          /\ ~ViolatesTextRule(result.verdict_text)
          /\ ~ViolatesTextRule(result.sentence_text)
    IN /\ outcome.ok =>
            outcome.value.evidence =
              [k \in 1..Cardinality(first) |->
                 clampEmojiString(sanitizeEmoji(Trim(items[Nth(first, k)].s)),
                                  validation.limits.evidenceEmojiMax)]
       /\ (~Conforms(result.verdict) \/ ~Conforms(result.sentence)) => ~outcome.ok
       /\ (outcome.error = Str("Model evidence missing or invalid."))
            <=> (fieldsPass /\ first = {})

\* A verdict with six evidence entries kept from more than six, the second of
\* which was skipped.
C31_Witness ==
  /\ validation.called
  /\ validation.outcome.ok
  /\ Len(EvidenceItems(validation.result)) = MaxEvidence
  /\ ~Conforms(EvidenceItems(validation.result)[2])
  /\ Len(validation.outcome.value.evidence) = 6
  /\ validation.outcome.value.evidence[2] = <<"HEART", "HEART", "HEART">>

\* Code points that continue the glyph of the code point before them: the
\* skin-tone modifier, the variation selector and the joiner.
GlyphExtenders == {"TONE", "VS16", "ZWJ"}

\* A glyph (grapheme cluster) of s starts at index i.
GlyphStartsAt(s, i) ==
  \/ i = 1
  \/ s[i] \notin GlyphExtenders /\ s[i - 1] # "ZWJ"

\* Number of glyphs of s, a glyph being a whole cluster of code points
WholeGlyphCount(s) == Cardinality({i \in 1..Len(s) : GlyphStartsAt(s, i)})

\* out is a prefix of s that ends where a glyph of s ends.
IsWholeGlyphPrefix(out, s) ==
  /\ Len(out) <= Len(s)
  /\ out = SubSeq(s, 1, Len(out))
  /\ Len(out) = Len(s) \/ GlyphStartsAt(s, Len(out) + 1)

\* out is s capped at n glyphs.
CappedAtGlyphs(out, s, n) ==
  /\ IsWholeGlyphPrefix(out, s)
  /\ WholeGlyphCount(out) = Min(n, WholeGlyphCount(s))

\* C32: clampEmojiString never splits a glyph of several code points: for the
\* sanitized verdict, sentence and evidence entries s and their caps n, the
\* value returned is a prefix of s made of whole glyphs and has
\* min(n, glyphCount(s)) glyphs.
C32_ClampKeepsWholeGlyphs ==
  (validation.called /\ validation.outcome.ok) =>
    LET result == validation.result
        value == validation.outcome.value
        limits == validation.limits
        kept == FirstSixConforming(EvidenceItems(result))
    IN /\ CappedAtGlyphs(value.verdict, sanitizeEmoji(Trim(result.verdict.s)),
                         limits.verdictMax)
       /\ CappedAtGlyphs(value.sentence, sanitizeEmoji(Trim(result.sentence.s)),
                         limits.sentenceMax)
       /\ \A k \in 1..Len(value.evidence) :
            CappedAtGlyphs(
              value.evidence[k],
              sanitizeEmoji(Trim(EvidenceItems(result)[Nth(kept, k)].s)),
              limits.evidenceEmojiMax)

\* The strings validateModelOutput sanitizes: the trimmed verdict, sentence
\* and evidence entries of the model output
SanitizedStrings(result) ==
  {Trim(raw.s) : raw \in {r \in {result.verdict, result.sentence} : r.t = "string"}}
  \cup {Trim(EvidenceItems(result)[i].s) :
          i \in {j \in 1..Len(EvidenceItems(result)) :
                   EvidenceItems(result)[j].t = "string"}}

\* C33: sanitizeEmoji is idempotent, sanitizeEmoji(sanitizeEmoji(s)) =
\* sanitizeEmoji(s), and its result holds none of the ASCII letters, digits
\* and punctuation characters it strips.
C33_SanitizeIsIdempotent ==
  validation.called =>
    \A s \in SanitizedStrings(validation.result) :
      /\ sanitizeEmoji(sanitizeEmoji(s)) = sanitizeEmoji(s)
      /\ \A i \in 1..Len(sanitizeEmoji(s)) : sanitizeEmoji(s)[i] \notin SanitizerClass

\* A verdict with stripped characters in three places, between emoji, was
\* sanitized.
C33_Witness ==
  /\ validation.called
  /\ validation.outcome.ok
  /\ validation.result.verdict.s = <<" ", "a", "GRIN", "1", "TONE", "HEART", ".", " ">>
  /\ sanitizeEmoji(Trim(validation.result.verdict.s)) = <<"GRIN", "TONE", "HEART">>
  /\ validation.outcome.value.verdict = <<"GRIN", "TONE">>

\* The value holds at least one emoji glyph.
HasEmojiGlyph(value) == \E i \in 1..Len(value) : value[i] \in EmojiClass

\* C38: the verdict, the sentence and every evidence entry validateModelOutput
\* returns hold at least one emoji glyph after sanitizing and capping: none is
\* empty or made of whitespace only.
C38_EmojiFieldsHoldAnEmoji ==
  (validation.called /\ validation.outcome.ok) =>
    LET value == validation.outcome.value IN
    /\ HasEmojiGlyph(value.verdict)
    /\ HasEmojiGlyph(value.sentence)
    /\ \A k \in 1..Len(value.evidence) : HasEmojiGlyph(value.evidence[k])

\* The index in the evidence_text array of the k-th entry kept from it
KeptTextIndex(items, k) ==
  Nth({i \in 1..Len(items) : items[i].t = "string" /\ Trim(items[i].s) # <<>>}, k)

\* C39: in every ValidatedVerdict evidenceText[i] is the trimmed, capped
\* evidence_text entry that stood at the index of the model output at which
\* the entry kept as evidence[i] stood: dropping entries never pairs an
\* evidence item with the explanation of another.
C39_EvidenceTextKeepsItsItem ==
  (validation.called /\ validation.outcome.ok) =>
    LET result == validation.result
        value == validation.outcome.value
        items == EvidenceItems(result)
        texts == IF result.evidence_text.t = "array"
                   THEN result.evidence_text.items ELSE <<>>
        kept == FirstSixConforming(items)
    IN \A k \in 1..Len(value.evidence) :
         LET at == Nth(kept, k) IN
         /\ at <= Len(texts)
         /\ texts[at].t = "string"
         /\ value.evidenceText[k] = SliceFromStart(Trim(texts[at].s), 160)
         /\ KeptTextIndex(texts, k) = at


\* ------------------------------------------------------------------------
\* Client properties: a stream that ends with an error
\* ------------------------------------------------------------------------
\* The stream that was read to its end held an error event
ReadAnErrorStream ==
  /\ client.pc = "finished"
  /\ \E i \in 1..Len(client.events) : client.events[i].field = "error"

\* C40: once the page has processed a stream that held an error event and the
\* stream has closed, it shows the error (streamError is set and isStreaming
\* is false) and its status message is not the success text "Verdict
\* delivered.".
C40_ErrorStreamShowsNoSuccess ==
  ReadAnErrorStream =>
    /\ client.state.streamError # <<>>
    /\ ~client.state.isStreaming
    /\ client.state.statusMessage # Str("Verdict delivered.")


\* ------------------------------------------------------------------------
\* Pipeline properties: frame of a rejected request, order of the calls
\* ------------------------------------------------------------------------
\* The step in which POST answers a request with 400
AnswersInvalid == post.pc = "awaitBody" /\ post'.pc = "rejected400"

\* C36: a request that is rejected with 400 neither creates nor changes a
\* rate-limit window: the store is the same before and after it, and the
\* request is not counted against any identifier.
C36_InvalidRequestLeavesStore ==
  [][AnswersInvalid => UNCHANGED <<rateLimitStore, history>>]_vars

\* A request was admitted and counted, and the next one was answered 400: the
\* window of its client still counts one request.
C36_Witness ==
  /\ post.pc = "rejected400"
  /\ post.status = 400
  /\ served = 1
  /\ rateLimitStore[post.id] = RateLimitEntry(1, RATE_LIMIT_WINDOW_MS)
  /\ history[post.id].calls = 1


\* The stream holds an error event
HoldsError == \E i \in 1..Len(post.events) : post.events[i].field = "error"

\* C37: a stream that ends with an error event holds only status events before
\* it: no verdict, verdict_text, sentence, sentence_text, evidence,
\* evidence_text or share event is emitted in a stream that ends in error.
C37_ErrorStreamHoldsOnlyStatus ==
  HoldsError =>
    /\ post.events[Len(post.events)].field = "error"
    /\ \A i \in 1..(Len(post.events) - 1) : post.events[i].field = "status"

\* The generator answered with an object that failed validation after the
\* text had been rewritten and translated: three status events, then the
\* error.
C37_Witness ==
  /\ post.pc = "closed"
  /\ post.generation.kind = "ok"
  /\ post.generation.value.t = "object"
  /\ post.wasTranslated
  /\ Len(post.events) = 4
  /\ post.events[4].field = "error"


\* The place of a service in the pipeline
StageOf(api) ==
  CASE api = "moderation" -> 1
    [] api = "detect" -> 2
    [] api = "translate" -> 3
    [] api = "chat" -> 4

\* The service a stream in the given position waits for
AwaitedApi(pc) ==
  CASE pc = "moderating" -> "moderation"
    [] pc = "detecting" -> "detect"
    [] pc = "translating" -> "translate"
    [] pc \in {"generating", "retrying"} -> "chat"

\* The text the language stage hands on: the text translation returned, and
\* the text it was given when it returned none or was not called
TranslationOutput ==
  IF post.translation.kind = "parsed" /\ post.translation.text.t = "string"
    THEN post.translation.text.s
    ELSE post.moderatedText

\* The calls issued so far are in pipeline order, each service being called
\* once and generation at most twice; start() waits for the last of them only.
CallsInOrder ==
  /\ \A i \in 1..Len(post.calls) : \A j \in (i + 1)..Len(post.calls) :
       \/ StageOf(post.calls[i].api) < StageOf(post.calls[j].api)
       \/ post.calls[i].api = "chat" /\ post.calls[j].api = "chat"
  /\ post.calls # <<>> => post.calls[1] = Call("moderation", post.text, FALSE)
  /\ post.pc \in StreamingPcs =>
       /\ post.calls # <<>>
       /\ post.calls[Len(post.calls)].api = AwaitedApi(post.pc)

\* Detection and translation are given the text moderation left, generation
\* the text the language stage handed on.
CallsFedByPredecessor ==
  \A i \in 1..Len(post.calls) :
    /\ post.calls[i].api \in {"detect", "translate"} =>
         post.calls[i].text = post.moderatedText
    /\ post.calls[i].api = "chat" => post.calls[i].text = TranslationOutput

\* A call is issued only in the step in which the call before it settles, and
\* one call at a time.
C34_CallStep ==
  (post.calls # <<>> /\ post'.calls # post.calls /\ post'.calls # <<>>) =>
    /\ post'.calls = Append(post.calls, post'.calls[Len(post'.calls)])
    /\ post.pc \in StreamingPcs
    /\ settled'[1] = post.calls[Len(post.calls)].api

\* C34: within one request the external calls are strictly sequential and
\* ordered: at most one call is in flight at any time, moderation completes
\* before language detection starts, detection before translation,
\* translation before generation; generation receives the output of
\* translation, which was computed from the output of moderation.
C34_CallsSequentialAndOrdered ==
  /\ [](CallsInOrder /\ CallsFedByPredecessor)
  /\ [][C34_CallStep]_vars

\* All four services were called in one request: the text was rewritten by
\* moderation, the rewritten text translated and the translation given to
\* generation.
C34_Witness ==
  /\ Len(post.calls) = 4
  /\ post.calls[4].api = "chat"
  /\ post.moderatedText # post.text
  /\ post.calls[3] = Call("translate", post.moderatedText, FALSE)
  /\ post.calls[4].text # post.moderatedText
  /\ post.calls[4].text = post.translation.text.s


\* The stream is open and waits for a call that is never answered
WaitsForHungCall == post.pc \in StreamingPcs /\ post.hung

\* C35: when an external call (moderation, detection, translation or
\* generation) never returns, the request still ends: the wait for the call is
\* ended by a ceiling, so start() can take its next step and close the stream
\* with an error event; no stream is left open with nothing more to happen.
C35_HungCallStillEnds ==
  WaitsForHungCall => ENABLED CallSettles

====
